---- MODULE Spec2Model ----
(***************************************************************************)
(* Verification model of the Noir debugger (tooling/debugger).             *)
(*                                                                         *)
(* Three layers are modelled:                                              *)
(*   - the debug execution engine (DebugContext, context.rs), modelled     *)
(*     from section 4.E of the design specification and from the way its   *)
(*     callers use it;                                                     *)
(*   - the REPL session ReplDebugger (repl/repl_debugger.rs), which owns   *)
(*     an engine and gates stepping on last_result;                        *)
(*   - the protocol worker start_debugger (debug.rs), which owns an engine *)
(*     and answers DebugCommandAPI messages over a channel pair.           *)
(***************************************************************************)
EXTENDS Integers, Sequences, FiniteSets, TLC

(***************************************************************************)
(* Bounds of the model.                                                    *)
(***************************************************************************)
\* commands the front-end of the protocol puts on the command channel in a run
MaxCmds == 2
\* commands a REPL session records for the replay comparison after restart
MaxLog == 2
\* calls made on a debug-variable store in a run
MaxOps == 7

(***************************************************************************)
(* The debugged program: one circuit whose opcode 1 is a Brillig call.     *)
(*   ACIR   0: assert w1      1: BRILLIG      2: assert w2                 *)
(*   Brillig 0: op  1: call f(4)  2: op  3: stop                           *)
(*           4: call g(6)  5: return      (f)                              *)
(*           6: op  7: return             (g)                              *)
(***************************************************************************)
Circuit == <<"assert", "brillig", "assert">>

\* witness read by the assert opcode at each ACIR index (0 for none)
AssertWitness == <<1, 0, 2>>

Bytecode == <<"op", "call", "op", "stop", "call", "return", "op", "return">>

\* target of the Brillig CALL at each bytecode index (-1 for other opcodes)
CallTarget == <<-1, 4, -1, -1, 6, -1, -1, -1>>

\* source line mapped to each ACIR opcode and to each Brillig opcode
AcirLine == <<1, 2, 7>>

BrilligLine == <<2, 2, 3, 3, 5, 5, 6, 6>>

NoLine == 0

Witnesses == 1..2

FieldValues == 0..1

initial_witness == [w \in Witnesses |-> 1]

(***************************************************************************)
(* Opcode and debug locations.                                             *)
(***************************************************************************)
Acir(i) == [acir |-> i, brillig |-> -1]

Brillig(i, j) == [acir |-> i, brillig |-> j]

NoLoc == [acir |-> -1, brillig |-> -1]

\* the locations a front-end names in break/delete commands; Acir(3) is past
\* the end of the circuit
BpLocs == {Acir(1), Brillig(1, 4), Acir(3)}

(***************************************************************************)
(* Engine results (DebugCommandResult).                                    *)
(***************************************************************************)
ResOk == [tag |-> "Ok", loc |-> NoLoc]

ResDone == [tag |-> "Done", loc |-> NoLoc]

ResError == [tag |-> "Error", loc |-> NoLoc]

BreakpointReached(loc) == [tag |-> "BreakpointReached", loc |-> loc]

(***************************************************************************)
(* The engine, DebugContext.  A context is a record                        *)
(*   ip      index of the next ACIR opcode (Len(Circuit) when solved)      *)
(*   bpc     program counter of the live Brillig VM, -1 when none          *)
(*   bstack  return addresses of the live Brillig VM                       *)
(*   status  "InProgress", "Solved" or "Failure"                           *)
(*   wit     the witness map                                               *)
(*   breakpoints  the breakpoint set                                       *)
(***************************************************************************)
DebugContextNew(witness) ==
    [ip |-> 0, bpc |-> -1, bstack |-> <<>>, status |-> "InProgress",
     wit |-> witness, breakpoints |-> {}]

is_executing_brillig(ctx) == ctx.bpc >= 0

is_solved(ctx) == ctx.status = "Solved"

IsTerminal(ctx) == ctx.status # "InProgress"

get_current_debug_location(ctx) ==
    IF ctx.ip >= Len(Circuit) THEN NoLoc
    ELSE IF is_executing_brillig(ctx) THEN Brillig(ctx.ip, ctx.bpc)
    ELSE Acir(ctx.ip)

get_current_source_location(ctx) ==
    IF ctx.ip >= Len(Circuit) THEN NoLine
    ELSE IF is_executing_brillig(ctx) THEN BrilligLine[ctx.bpc + 1]
    ELSE AcirLine[ctx.ip + 1]

\* one frame for the circuit plus one per Brillig call in progress
CallStackDepth(ctx) == 1 + Len(ctx.bstack)

is_valid_debug_location(loc) ==
    /\ loc.acir >= 0
    /\ loc.acir < Len(Circuit)
    /\ \/ loc.brillig = -1
       \/ /\ Circuit[loc.acir + 1] = "brillig"
          /\ loc.brillig >= 0
          /\ loc.brillig < Len(Bytecode)

\* a breakpoint at the ACIR location of a Brillig call also matches when the
\* VM stands at its first opcode
breakpoint_reached(ctx) ==
    LET loc == get_current_debug_location(ctx) IN
    /\ loc # NoLoc
    /\ \/ loc \in ctx.breakpoints
       \/ loc.brillig = 0 /\ Acir(loc.acir) \in ctx.breakpoints

(***************************************************************************)
(* Queries.  The cells of the Brillig memory are not part of a context:    *)
(* no opcode of Bytecode reads them, so a context records only whether     *)
(* there is a memory to read or to write.                                  *)
(***************************************************************************)
get_opcodes(ctx) == Circuit

\* there is one circuit, of id 0
get_opcodes_of_circuit(ctx, circuit_id) ==
    IF circuit_id = 0 THEN Circuit ELSE <<>>

get_source_location_for_debug_location(loc) ==
    IF ~is_valid_debug_location(loc) THEN <<>>
    ELSE IF loc.brillig >= 0 THEN <<BrilligLine[loc.brillig + 1]>>
    ELSE <<AcirLine[loc.acir + 1]>>

\* the locations of the calls in progress, the current location last
get_call_stack(ctx) ==
    IF ctx.ip >= Len(Circuit) THEN <<>>
    ELSE IF ~is_executing_brillig(ctx) THEN <<Acir(ctx.ip)>>
    ELSE [k \in 1..Len(ctx.bstack) |-> Brillig(ctx.ip, ctx.bstack[k] - 1)]
         \o <<Brillig(ctx.ip, ctx.bpc)>>

is_breakpoint_set(ctx, loc) == loc \in ctx.breakpoints

NoMemory == "none"

LiveMemory == "memory"

get_brillig_memory(ctx) ==
    IF is_executing_brillig(ctx) THEN LiveMemory ELSE NoMemory

\* without a live Brillig VM the write does nothing
write_brillig_memory(ctx, ptr, value) == ctx

\* the variables of the debug-variable store, which the circuit of the
\* model never writes
get_variables(ctx) == <<>>

\* the first ACIR opcode mapped to the line, if any
find_opcode_at_current_file_line(ctx, line) ==
    IF \E i \in 1..Len(AcirLine) : AcirLine[i] = line
    THEN Acir((CHOOSE i \in 1..Len(AcirLine) :
                  /\ AcirLine[i] = line
                  /\ \A j \in 1..Len(AcirLine) : AcirLine[j] = line => i <= j) - 1)
    ELSE NoLoc

(***************************************************************************)
(* Stepping.  Every stepping operator returns [ctx, res]: the context      *)
(* after the command and its DebugCommandResult.                           *)
(***************************************************************************)
StatusResult(ctx) ==
    CASE ctx.status = "Solved" -> ResDone
      [] ctx.status = "Failure" -> ResError
      [] OTHER -> ResOk

\* the ACIR opcode at ip is finalised: the Brillig VM, if any, is dropped
Advance(ctx) ==
    [ctx EXCEPT !.ip = ctx.ip + 1, !.bpc = -1, !.bstack = <<>>,
                !.status = IF ctx.ip + 1 >= Len(Circuit) THEN "Solved"
                           ELSE "InProgress"]

\* the solver on an assert opcode: it holds when the witness it reads is 1
SolveAssert(ctx) ==
    IF ctx.wit[AssertWitness[ctx.ip + 1]] = 1 THEN Advance(ctx)
    ELSE [ctx EXCEPT !.status = "Failure"]

step_brillig_opcode(ctx) ==
    LET op == Bytecode[ctx.bpc + 1] IN
    CASE op = "op" -> [ctx EXCEPT !.bpc = ctx.bpc + 1]
      [] op = "call" -> [ctx EXCEPT !.bpc = CallTarget[ctx.bpc + 1],
                                    !.bstack = Append(ctx.bstack, ctx.bpc + 1)]
      [] op = "return" -> [ctx EXCEPT !.bpc = ctx.bstack[Len(ctx.bstack)],
                                      !.bstack = SubSeq(ctx.bstack, 1, Len(ctx.bstack) - 1)]
      [] OTHER -> Advance(ctx)

step_into_opcode(ctx) ==
    LET after ==
          IF IsTerminal(ctx) THEN ctx
          ELSE IF is_executing_brillig(ctx) THEN step_brillig_opcode(ctx)
          ELSE IF Circuit[ctx.ip + 1] = "brillig" THEN [ctx EXCEPT !.bpc = 0]
          ELSE SolveAssert(ctx)
    IN [ctx |-> after, res |-> StatusResult(after)]

RECURSIVE step_out_of_brillig(_)
step_out_of_brillig(ctx) ==
    LET r == step_into_opcode(ctx) IN
    IF r.res # ResOk \/ ~is_executing_brillig(r.ctx) THEN r
    ELSE step_out_of_brillig(r.ctx)

step_acir_opcode(ctx) ==
    IF ~IsTerminal(ctx) /\ Circuit[ctx.ip + 1] = "brillig"
    THEN step_out_of_brillig(ctx)
    ELSE step_into_opcode(ctx)

\* what cont and next_* do after each step_into: a failure or completion ends
\* the command, and so does a breakpoint at the location just reached
AfterStep(r) ==
    IF r.res # ResOk THEN r
    ELSE IF breakpoint_reached(r.ctx)
         THEN [ctx |-> r.ctx,
               res |-> BreakpointReached(get_current_debug_location(r.ctx))]
         ELSE r

Stopped(r) == r.res # ResOk

RECURSIVE NextIntoLoop(_, _)
NextIntoLoop(ctx, start) ==
    LET r == AfterStep(step_into_opcode(ctx)) IN
    IF Stopped(r) \/ get_current_source_location(r.ctx) # start THEN r
    ELSE NextIntoLoop(r.ctx, start)

next_into(ctx) == NextIntoLoop(ctx, get_current_source_location(ctx))

RECURSIVE NextOverLoop(_, _, _)
NextOverLoop(ctx, start, depth) ==
    LET r == AfterStep(step_into_opcode(ctx)) IN
    IF \/ Stopped(r)
       \/ /\ CallStackDepth(r.ctx) = depth
          /\ get_current_source_location(r.ctx) # start
    THEN r
    ELSE NextOverLoop(r.ctx, start, depth)

next_over(ctx) ==
    NextOverLoop(ctx, get_current_source_location(ctx), CallStackDepth(ctx))

RECURSIVE NextOutLoop(_, _, _)
NextOutLoop(ctx, start, depth) ==
    LET r == AfterStep(step_into_opcode(ctx)) IN
    IF \/ Stopped(r)
       \/ /\ CallStackDepth(r.ctx) < depth
          /\ get_current_source_location(r.ctx) # start
    THEN r
    ELSE NextOutLoop(r.ctx, start, depth)

next_out(ctx) ==
    NextOutLoop(ctx, get_current_source_location(ctx), CallStackDepth(ctx))

RECURSIVE cont(_)
cont(ctx) ==
    LET r == AfterStep(step_into_opcode(ctx)) IN
    IF Stopped(r) THEN r ELSE cont(r.ctx)

(***************************************************************************)
(* Breakpoints, witness write-back, restart and finalize of the engine.    *)
(***************************************************************************)
\* an insertion that checks only for presence
add_breakpoint_unchecked(ctx, loc) ==
    IF loc \notin ctx.breakpoints
    THEN [ctx |-> [ctx EXCEPT !.breakpoints = ctx.breakpoints \cup {loc}],
          ok |-> TRUE]
    ELSE [ctx |-> ctx, ok |-> FALSE]

add_breakpoint(ctx, loc) ==
    IF is_valid_debug_location(loc) /\ loc \notin ctx.breakpoints
    THEN [ctx |-> [ctx EXCEPT !.breakpoints = ctx.breakpoints \cup {loc}],
          ok |-> TRUE]
    ELSE [ctx |-> ctx, ok |-> FALSE]

delete_breakpoint(ctx, loc) ==
    [ctx |-> [ctx EXCEPT !.breakpoints = ctx.breakpoints \ {loc}],
     ok |-> loc \in ctx.breakpoints]

overwrite_witness(ctx, w, v) ==
    [ctx |-> [ctx EXCEPT !.wit[w] = v], old |-> ctx.wit[w]]

restart(ctx) ==
    [DebugContextNew(initial_witness) EXCEPT !.breakpoints = ctx.breakpoints]

\* the witness stack: one frame, the witness map of the circuit
finalize(ctx) == <<ctx.wit>>

(***************************************************************************)
(* State.                                                                  *)
(*   context, last_result   the fields of ReplDebugger                     *)
(*   last     history: the REPL command served last, its argument, what it *)
(*            showed, and the session it was issued in                     *)
(*   replay   history: the commands of the first run and their outputs,    *)
(*            and how far the run after the first restart repeats them     *)
(*   frontend the front-end that drives the engine in this run: "repl" for *)
(*            ReplDebugger, "protocol" for the worker of start_debugger,   *)
(*            "circuit" for debug_circuit                                  *)
(*   wctx     the DebugContext owned by the worker                         *)
(*   cmdQ, resQ   the messages in flight on the command and result channel *)
(*   txOpen, rxOpen   the front-end still holds its Sender of commands,    *)
(*            its Receiver of results                                      *)
(*   wpc      the worker: "recv" blocked in recv, "send" about to send the *)
(*            result in pending, "done" after leaving the loop             *)
(*   pending  the result computed for the command just received            *)
(*   issued   number of commands the front-end has tried to send           *)
(*   wlog     history: received, the number of commands the worker read;   *)
(*            results, the ids and variants of the results it sent;        *)
(*            finalized, whether it served Finalize; rejected, the number  *)
(*            of sends that failed because the worker was gone             *)
(*   wlast    history: the command the worker served last, its result, and *)
(*            the context it was served in                                 *)
(*   acvm, solved   the solver and the flag of debug_circuit (lib.rs)      *)
(*   assert_messages   the assert messages of its circuit                  *)
(*   lrepl    its REPL loop: "running", "quit", or "panicked"              *)
(*   llast    history: the command it served last and the step result      *)
(***************************************************************************)
VARIABLES frontend, context, last_result, last, replay,
          wctx, cmdQ, resQ, txOpen, rxOpen, wpc, pending, issued, wlog, wlast,
          acvm, assert_messages, solved, lrepl, llast,
          debug_vars, dlast, dops,
          pt, inst,
          cli, dap, hs, dtypes

legacyVars == <<acvm, assert_messages, solved, lrepl, llast>>

storeVars == <<debug_vars, dlast, dops>>

printVars == <<pt>>

instVars == <<inst>>

cliVars == <<cli, dap, hs, dtypes>>

replVars == <<context, last_result, last, replay>>

workerVars == <<wctx, cmdQ, resQ, txOpen, rxOpen, wpc, pending, issued, wlog, wlast>>

vars == <<frontend, replVars, workerVars, legacyVars, storeVars, printVars, instVars,
          cliVars>>

\* the variables no REPL command touches
notRepl == <<frontend, workerVars, legacyVars, storeVars, printVars, instVars, cliVars>>

\* the variables neither the worker nor its front-end touches
notWorker == <<frontend, replVars, legacyVars, storeVars, printVars, instVars, cliVars>>

\* the variables debug_circuit does not touch
notCircuit == <<frontend, replVars, workerVars, storeVars, printVars, instVars, cliVars>>

\* the variables no operation of the debug-variable store touches
notStore == <<frontend, replVars, workerVars, legacyVars, printVars, instVars, cliVars>>

\* the variables neither decode_value nor the formatting of a value touches
notPrint == <<frontend, replVars, workerVars, legacyVars, storeVars, instVars, cliVars>>

\* the variables the debug command does not touch
notCli == <<frontend, replVars, workerVars, legacyVars, storeVars, printVars, instVars>>

\* the variables the instrumenter and a run of its output do not touch
notInst == <<frontend, replVars, workerVars, legacyVars, storeVars, printVars, cliVars>>

StepCmds == {"step", "into", "next", "over", "out", "continue"}

\* a value the field parser rejects
BadValue == -1

NoArg == [loc |-> NoLoc, w |-> 0, v |-> 0]

LocArg(loc) == [loc |-> loc, w |-> 0, v |-> 0]

WitArg(w, v) == [loc |-> NoLoc, w |-> w, v |-> v]

NumArg(n) == [loc |-> NoLoc, w |-> 0, v |-> n]

Session(ctx, lr) == [context |-> ctx, last_result |-> lr]

ReplDebuggerNew == Session(DebugContextNew(initial_witness), ResOk)

(***************************************************************************)
(* ReplDebugger.  Each method maps the session to [sess, out]: the session *)
(* after the call and what the call shows to the user.                     *)
(***************************************************************************)
\* a check that lets a finished session step
validate_not_error(lr) == lr.tag # "Error"

validate_in_progress(lr) == lr.tag \in {"Ok", "BreakpointReached"}

\* stores the result, then show_current_vm_status prints the location
handle_debug_command_result(sess, r) ==
    [sess |-> Session(r.ctx, r.res),
     out |-> [msg |-> "stepped", res |-> r.res,
              at |-> get_current_debug_location(r.ctx)]]

Refused(sess) ==
    [sess |-> sess,
     out |-> [msg |-> "refused", res |-> sess.last_result, at |-> NoLoc]]

Shown(sess, msg) ==
    [sess |-> sess, out |-> [msg |-> msg, res |-> ResOk, at |-> NoLoc]]

repl_step_acir_opcode(sess) ==
    IF validate_in_progress(sess.last_result)
    THEN handle_debug_command_result(sess, step_acir_opcode(sess.context))
    ELSE Refused(sess)

repl_step_into_opcode(sess) ==
    IF validate_in_progress(sess.last_result)
    THEN handle_debug_command_result(sess, step_into_opcode(sess.context))
    ELSE Refused(sess)

repl_next(sess) ==
    IF validate_in_progress(sess.last_result)
    THEN handle_debug_command_result(sess, next_into(sess.context))
    ELSE Refused(sess)

\* a mutation of the over command: it stops at the next source line,
\* inside a callee too
repl_next_over_stepping_into(sess) ==
    IF validate_in_progress(sess.last_result)
    THEN handle_debug_command_result(sess, next_into(sess.context))
    ELSE Refused(sess)

\* a mutation of the out command: it steps over instead
repl_next_out_stepping_over(sess) ==
    IF validate_in_progress(sess.last_result)
    THEN handle_debug_command_result(sess, next_over(sess.context))
    ELSE Refused(sess)

repl_next_over(sess) ==
    IF validate_in_progress(sess.last_result)
    THEN handle_debug_command_result(sess, next_over(sess.context))
    ELSE Refused(sess)

repl_next_out(sess) ==
    IF validate_in_progress(sess.last_result)
    THEN handle_debug_command_result(sess, next_out(sess.context))
    ELSE Refused(sess)

\* a cont that stops at the next source line
repl_cont_to_next_line(sess) ==
    IF validate_in_progress(sess.last_result)
    THEN handle_debug_command_result(sess, next_into(sess.context))
    ELSE Refused(sess)

repl_cont(sess) ==
    IF validate_in_progress(sess.last_result)
    THEN handle_debug_command_result(sess, cont(sess.context))
    ELSE Refused(sess)

\* the loop of restart_session that adds the saved breakpoints again
RECURSIVE AddAll(_, _)
AddAll(ctx, locs) ==
    IF locs = {} THEN ctx
    ELSE LET loc == CHOOSE l \in locs : TRUE IN
         AddAll(add_breakpoint(ctx, loc).ctx, locs \ {loc})

\* a restart that forgets the breakpoints
restart_session_drops_breakpoints(sess) ==
    [sess |-> Session(DebugContextNew(initial_witness), ResOk),
     out |-> [msg |-> "restarted", res |-> ResOk,
              at |-> get_current_debug_location(DebugContextNew(initial_witness))]]

\* a restart that builds the context from the current witness map
restart_session_keeps_witness(sess) ==
    [sess |-> Session(AddAll(DebugContextNew(sess.context.wit),
                             sess.context.breakpoints),
                      ResOk),
     out |-> [msg |-> "restarted", res |-> ResOk,
              at |-> get_current_debug_location(DebugContextNew(initial_witness))]]

restart_session(sess) ==
    [sess |-> Session(AddAll(DebugContextNew(initial_witness),
                             sess.context.breakpoints),
                      ResOk),
     out |-> [msg |-> "restarted", res |-> ResOk,
              at |-> get_current_debug_location(DebugContextNew(initial_witness))]]

add_breakpoint_at(sess, loc) ==
    IF ~is_valid_debug_location(loc) THEN Shown(sess, "invalid")
    ELSE LET r == add_breakpoint(sess.context, loc) IN
         Shown(Session(r.ctx, sess.last_result),
               IF r.ok THEN "added" ELSE "already set")

delete_breakpoint_at(sess, loc) ==
    LET r == delete_breakpoint(sess.context, loc) IN
    Shown(Session(r.ctx, sess.last_result),
          IF r.ok THEN "deleted" ELSE "not set")

\* the shortcut a mutation of update_witness takes: gated like a stepping
\* command
update_witness_gated(sess, w, v) ==
    IF ~validate_in_progress(sess.last_result) THEN Refused(sess)
    ELSE IF v = BadValue THEN Shown(sess, "invalid value")
    ELSE Shown(Session(overwrite_witness(sess.context, w, v).ctx, sess.last_result),
               "set")

update_witness(sess, w, v) ==
    IF v = BadValue THEN Shown(sess, "invalid value")
    ELSE Shown(Session(overwrite_witness(sess.context, w, v).ctx,
                       sess.last_result),
               "set")

show_witness_map(sess) ==
    [sess |-> sess,
     out |-> [msg |-> "witness", res |-> ResOk, at |-> NoLoc,
              map |-> sess.context.wit]]

\* prints the value when the witness is in the map
show_witness(sess, index) ==
    Shown(sess, IF index \in DOMAIN sess.context.wit THEN "witness shown" ELSE "nothing")

\* lists the opcodes with the marker of the current location
display_opcodes(sess) ==
    [sess |-> sess,
     out |-> [msg |-> "opcodes", res |-> ResOk,
              at |-> get_current_debug_location(sess.context)]]

show_brillig_registers(sess) ==
    Shown(sess, IF is_executing_brillig(sess.context) THEN "registers"
                ELSE "not executing brillig")

set_brillig_register(sess, index, value) ==
    IF value = BadValue THEN Shown(sess, "invalid value")
    ELSE IF ~is_executing_brillig(sess.context) THEN Shown(sess, "not executing brillig")
    ELSE Shown(sess, "register set")

show_brillig_memory(sess) ==
    IF ~is_executing_brillig(sess.context) THEN Shown(sess, "not executing brillig")
    ELSE Shown(sess, IF get_brillig_memory(sess.context) = NoMemory
                     THEN "memory not available" ELSE "memory")

repl_write_brillig_memory(sess, index, value) ==
    IF value = BadValue THEN Shown(sess, "invalid value")
    ELSE IF ~is_executing_brillig(sess.context) THEN Shown(sess, "not executing brillig")
    ELSE Shown(Session(write_brillig_memory(sess.context, index, value),
                       sess.last_result),
               "memory written")

(***************************************************************************)
(* The replay history.  phase 1: the first run, logged while it has at     *)
(* most MaxLog commands; phase 2: after the first restart, while the       *)
(* commands issued repeat the logged ones; phase 3: no comparison.         *)
(***************************************************************************)
NoOut == [msg |-> "none", res |-> ResOk, at |-> NoLoc]

ReplayInit ==
    [phase |-> 1, run1 |-> <<>>, n |-> 0, out |-> NoOut, bps |-> {}]

ReplayOff ==
    [phase |-> 3, run1 |-> <<>>, n |-> 0, out |-> NoOut, bps |-> {}]

ReplayCommand(rp, cmd, arg, out) ==
    CASE rp.phase = 1 ->
           IF Len(rp.run1) < MaxLog
           THEN [rp EXCEPT !.run1 = Append(rp.run1,
                                           [cmd |-> cmd, arg |-> arg, out |-> out])]
           ELSE ReplayOff
      [] rp.phase = 2 ->
           IF /\ rp.n < Len(rp.run1)
              /\ rp.run1[rp.n + 1].cmd = cmd
              /\ rp.run1[rp.n + 1].arg = arg
           THEN [rp EXCEPT !.n = rp.n + 1, !.out = out]
           ELSE ReplayOff
      [] OTHER -> ReplayOff

ReplayRestart(rp, bps) ==
    IF rp.phase = 1 /\ rp.run1 # <<>>
    THEN [rp EXCEPT !.phase = 2, !.bps = bps]
    ELSE ReplayOff

(***************************************************************************)
(* REPL commands, as dispatched by the loop of spawn_debugger.             *)
(***************************************************************************)
Here == Session(context, last_result)

\* Option<WitnessMap>
SomeMap(map) == [some |-> TRUE, map |-> map]

NoMap == [some |-> FALSE, map |-> <<>>]

\* a mutation of the Finalize arm: the witness map is sent unless the solver
\* has failed
repl_finalize_unless_failed(sess) ==
    IF sess.context.status # "Failure" THEN SomeMap(sess.context.wit) ELSE NoMap

\* the Finalize arm: what is sent on debugger_outbox
repl_finalize(sess) ==
    IF is_solved(sess.context) THEN SomeMap(sess.context.wit) ELSE NoMap

Serve(cmd, arg, r) ==
    /\ frontend = "repl"
    /\ last.cmd # "finalize"
    /\ context' = r.sess.context
    /\ last_result' = r.sess.last_result
    /\ last' = [cmd |-> cmd, arg |-> arg, out |-> r.out, pre |-> Here,
                after |-> IF last.cmd = "break" /\ last.out.msg = "added"
                          THEN last.arg.loc ELSE NoLoc]
    /\ replay' = IF cmd = "restart"
                 THEN ReplayRestart(replay, context.breakpoints)
                 ELSE ReplayCommand(replay, cmd, arg, r.out)
    /\ UNCHANGED notRepl

ReplStepAcirOpcode == Serve("step", NoArg, repl_step_acir_opcode(Here))

ReplStepIntoOpcode == Serve("into", NoArg, repl_step_into_opcode(Here))

ReplNext == Serve("next", NoArg, repl_next(Here))

ReplNextOver == Serve("over", NoArg, repl_next_over(Here))

ReplNextOut == Serve("out", NoArg, repl_next_out(Here))

ReplCont == Serve("continue", NoArg, repl_cont(Here))

ReplRestart == Serve("restart", NoArg, restart_session(Here))

ReplBreakpointSet ==
    \E loc \in BpLocs : Serve("break", LocArg(loc), add_breakpoint_at(Here, loc))

ReplBreakpointDelete ==
    \E loc \in BpLocs :
        Serve("delete", LocArg(loc), delete_breakpoint_at(Here, loc))

ReplUpdateWitness ==
    \E w \in Witnesses, v \in FieldValues \cup {BadValue} :
        Serve("witness set", WitArg(w, v), update_witness(Here, w, v))

ReplShowWitnessMap == Serve("witness", NoArg, show_witness_map(Here))

ReplShowWitness ==
    \E w \in {1, 3} : Serve("witness show", WitArg(w, 0), show_witness(Here, w))

ReplDisplayOpcodes == Serve("opcodes", NoArg, display_opcodes(Here))

ReplShowBrilligRegisters == Serve("registers", NoArg, show_brillig_registers(Here))

ReplSetBrilligRegister ==
    \E v \in {0, BadValue} : Serve("regset", WitArg(0, v), set_brillig_register(Here, 0, v))

ReplShowBrilligMemory == Serve("memory", NoArg, show_brillig_memory(Here))

ReplWriteBrilligMemory ==
    \E v \in {0, BadValue} :
        Serve("memset", WitArg(0, v), repl_write_brillig_memory(Here, 0, v))

\* the REPL loop has stopped and its Finalize is served: the last message of
\* a session
ReplFinalize ==
    /\ frontend = "repl"
    /\ last.cmd # "finalize"
    /\ last' = [cmd |-> "finalize", arg |-> NoArg,
                out |-> [msg |-> "finalize", res |-> ResOk, at |-> NoLoc,
                         reply |-> repl_finalize(Here)],
                pre |-> Here, after |-> NoLoc]
    /\ replay' = ReplayOff
    /\ UNCHANGED <<context, last_result, notRepl>>

ReplInit ==
    /\ context = ReplDebuggerNew.context
    /\ last_result = ReplDebuggerNew.last_result
    /\ last = [cmd |-> "none", arg |-> NoArg, out |-> NoOut,
               pre |-> ReplDebuggerNew, after |-> NoLoc]
    /\ replay = ReplayInit

(***************************************************************************)
(* The command/result protocol (debug.rs).                                 *)
(***************************************************************************)
SteppingKinds ==
    {"StepAcirOpcode", "StepIntoOpcode", "NextInto", "NextOver", "NextOut", "Cont"}

QueryKinds == {"IsSolved", "GetWitnessMap"}

\* the queries that take no argument, a location, a number
PlainQueryKinds ==
    {"GetCurrentDebugLocation", "GetOpcodes", "GetCallStack", "IsExecutingBrillig",
     "GetBrilligMemory", "GetVariables"}

LocationQueryKinds ==
    {"GetSourceLocationForDebugLocation", "IsBreakpointSet", "IsValidDebugLocation"}

NumberQueryKinds == {"GetOpcodesOfCircuit", "FindOpcodeAtCurrentFileLine"}

ProbeKinds == PlainQueryKinds \cup LocationQueryKinds \cup NumberQueryKinds

\* the circuit ids, lines and memory cells a front-end names
ProbeNumbers == {0, 7}

\* these queries leave the context alone and differ only in their answer:
\* the front-end sends one of them, and DebugCommandAPI below lists them all
SentProbeKinds == {"GetCallStack"}

Commands ==
    [kind : SteppingKinds \cup QueryKinds \cup {"Restart", "Finalize"}, arg : {NoArg}]
    \cup [kind : {"AddBreakpoint", "DeleteBreakpoint"}, arg : {LocArg(l) : l \in BpLocs}]
    \cup [kind : {"OverwriteWitness"},
          arg : {WitArg(w, v) : w \in Witnesses, v \in FieldValues}]
    \cup [kind : SentProbeKinds, arg : {NoArg}]
    \cup [kind : {"WriteBrilligMemory"}, arg : {NumArg(0)}]

\* every command of the enum, with the arguments above
DebugCommandAPI ==
    Commands
    \cup [kind : {"WriteBrilligMemory"}, arg : {NumArg(n) : n \in ProbeNumbers}]
    \cup [kind : PlainQueryKinds, arg : {NoArg}]
    \cup [kind : LocationQueryKinds, arg : {LocArg(l) : l \in BpLocs}]
    \cup [kind : NumberQueryKinds, arg : {NumArg(n) : n \in ProbeNumbers}]

NoResult == [id |-> 0, variant |-> "none", val |-> "none"]

Result(variant, val) == [variant |-> variant, val |-> val]

\* a stepping arm run in place of NextOver's
SteppingOverAsInto(ctx, kind) ==
    CASE kind = "StepAcirOpcode" -> step_acir_opcode(ctx)
      [] kind = "StepIntoOpcode" -> step_into_opcode(ctx)
      [] kind = "NextInto" -> next_into(ctx)
      [] kind = "NextOver" -> next_into(ctx)
      [] kind = "NextOut" -> next_out(ctx)
      [] OTHER -> cont(ctx)

\* a stepping arm run in place of NextOut's
SteppingOutAsOver(ctx, kind) ==
    CASE kind = "StepAcirOpcode" -> step_acir_opcode(ctx)
      [] kind = "StepIntoOpcode" -> step_into_opcode(ctx)
      [] kind = "NextInto" -> next_into(ctx)
      [] kind = "NextOver" -> next_over(ctx)
      [] kind = "NextOut" -> next_over(ctx)
      [] OTHER -> cont(ctx)

\* the arms of the stepping commands: each calls the engine operation of
\* its name
Stepping(ctx, kind) ==
    CASE kind = "StepAcirOpcode" -> step_acir_opcode(ctx)
      [] kind = "StepIntoOpcode" -> step_into_opcode(ctx)
      [] kind = "NextInto" -> next_into(ctx)
      [] kind = "NextOver" -> next_over(ctx)
      [] kind = "NextOut" -> next_out(ctx)
      [] OTHER -> cont(ctx)

\* the arms of the match on the received command, Finalize excepted: the
\* context after the command and the DebugCommandAPIResult built from it
\* a stepping arm that answers the end of the execution with the witness map
SteppingAnswersWitnessMapWhenDone(ctx, kind) ==
    LET r == Stepping(ctx, kind) IN
    [ctx |-> r.ctx,
     result |-> IF r.res = ResDone THEN Result("WitnessMap", r.ctx.wit)
                ELSE Result("DebugCommandResult", r.res)]

SteppingAnswer(ctx, kind) ==
    LET r == Stepping(ctx, kind) IN
    [ctx |-> r.ctx, result |-> Result("DebugCommandResult", r.res)]

Handle(ctx, kind, arg) ==
    CASE kind \in SteppingKinds -> SteppingAnswer(ctx, kind)
      [] kind = "GetCurrentDebugLocation" ->
           [ctx |-> ctx,
            result |-> Result("DebugLocation", get_current_debug_location(ctx))]
      [] kind = "GetOpcodes" ->
           [ctx |-> ctx, result |-> Result("Opcodes", get_opcodes(ctx))]
      [] kind = "GetOpcodesOfCircuit" ->
           [ctx |-> ctx, result |-> Result("Opcodes", get_opcodes_of_circuit(ctx, arg.v))]
      [] kind = "GetSourceLocationForDebugLocation" ->
           [ctx |-> ctx,
            result |-> Result("Locations", get_source_location_for_debug_location(arg.loc))]
      [] kind = "GetCallStack" ->
           [ctx |-> ctx, result |-> Result("DebugLocations", get_call_stack(ctx))]
      [] kind = "IsBreakpointSet" ->
           [ctx |-> ctx, result |-> Result("Bool", is_breakpoint_set(ctx, arg.loc))]
      [] kind = "IsValidDebugLocation" ->
           [ctx |-> ctx, result |-> Result("Bool", is_valid_debug_location(arg.loc))]
      [] kind = "IsExecutingBrillig" ->
           [ctx |-> ctx, result |-> Result("Bool", is_executing_brillig(ctx))]
      [] kind = "GetBrilligMemory" ->
           [ctx |-> ctx, result |-> Result("MemoryValue", get_brillig_memory(ctx))]
      [] kind = "WriteBrilligMemory" ->
           [ctx |-> write_brillig_memory(ctx, arg.w, arg.v),
            result |-> Result("Unit", "unit")]
      [] kind = "GetVariables" ->
           [ctx |-> ctx, result |-> Result("Variables", get_variables(ctx))]
      [] kind = "FindOpcodeAtCurrentFileLine" ->
           [ctx |-> ctx,
            result |-> Result("DebugLocation",
                              find_opcode_at_current_file_line(ctx, arg.v))]
      [] kind = "AddBreakpoint" ->
           LET r == add_breakpoint(ctx, arg.loc) IN
           [ctx |-> r.ctx, result |-> Result("Bool", r.ok)]
      [] kind = "DeleteBreakpoint" ->
           LET r == delete_breakpoint(ctx, arg.loc) IN
           [ctx |-> r.ctx, result |-> Result("Bool", r.ok)]
      [] kind = "Restart" ->
           [ctx |-> restart(ctx), result |-> Result("Unit", "unit")]
      [] kind = "OverwriteWitness" ->
           LET r == overwrite_witness(ctx, arg.w, arg.v) IN
           [ctx |-> r.ctx, result |-> Result("Field", r.old)]
      [] kind = "IsSolved" ->
           [ctx |-> ctx, result |-> Result("Bool", is_solved(ctx))]
      [] kind = "GetWitnessMap" ->
           [ctx |-> ctx, result |-> Result("WitnessMap", ctx.wit)]

\* a send that puts the message on the channel twice
SendTwice(queue, msg) == Append(Append(queue, msg), msg)

\* Sender::send on a channel whose receiver is alive
Send(queue, msg) == Append(queue, msg)

Tagged(id, result) == [id |-> id, variant |-> result.variant, val |-> result.val]

LogResult(log, msg) ==
    [log EXCEPT !.results = Append(log.results, [id |-> msg.id, variant |-> msg.variant])]

\* the worker leaves the loop: it has dropped result_tx and command_rx, and
\* the commands still queued are dropped with the receiver
\* a worker that goes back to recv where it should leave
WorkerStays ==
    /\ wpc' = "recv"
    /\ cmdQ' = cmdQ
    /\ pending' = NoResult

WorkerLeaves ==
    /\ wpc' = "done"
    /\ cmdQ' = <<>>
    /\ pending' = NoResult

\* recv returns a command of one of the kinds and the worker runs its arm
WorkerServes(kinds) ==
    /\ frontend = "protocol"
    /\ wpc = "recv"
    /\ cmdQ # <<>>
    /\ Head(cmdQ).kind \in kinds
    /\ LET c == Head(cmdQ)
           h == Handle(wctx, c.kind, c.arg)
       IN /\ wctx' = h.ctx
          /\ pending' = Tagged(c.id, h.result)
          /\ wlast' = [kind |-> c.kind, arg |-> c.arg, result |-> h.result,
                       pre |-> wctx,
                       after |-> IF wlast.kind = "AddBreakpoint" /\ wlast.result.val = TRUE
                                 THEN wlast.arg.loc ELSE NoLoc]
    /\ cmdQ' = Tail(cmdQ)
    /\ wpc' = "send"
    /\ wlog' = [wlog EXCEPT !.received = wlog.received + 1]
    /\ UNCHANGED <<resQ, txOpen, rxOpen, issued>>
    /\ UNCHANGED notWorker

WorkerStepping == WorkerServes(SteppingKinds)

WorkerAddBreakpoint == WorkerServes({"AddBreakpoint"})

WorkerDeleteBreakpoint == WorkerServes({"DeleteBreakpoint"})

WorkerRestart == WorkerServes({"Restart"})

WorkerOverwriteWitness == WorkerServes({"OverwriteWitness"})

WorkerQuery == WorkerServes(QueryKinds)

WorkerProbe == WorkerServes(ProbeKinds)

WorkerWriteBrilligMemory == WorkerServes({"WriteBrilligMemory"})

\* a send whose failure is ignored: the worker goes back to recv
WorkerSendRetries ==
    /\ frontend = "protocol"
    /\ wpc = "send"
    /\ IF rxOpen
       THEN /\ resQ' = Send(resQ, pending)
            /\ wlog' = LogResult(wlog, pending)
       ELSE UNCHANGED <<resQ, wlog>>
    /\ wpc' = "recv"
    /\ pending' = NoResult
    /\ UNCHANGED <<cmdQ, wctx, txOpen, rxOpen, issued, wlast>>
    /\ UNCHANGED notWorker

\* result_tx.send(result) at the end of an iteration: on failure the worker
\* leaves the loop
WorkerSend ==
    /\ frontend = "protocol"
    /\ wpc = "send"
    /\ IF rxOpen
       THEN /\ resQ' = Send(resQ, pending)
            /\ wlog' = LogResult(wlog, pending)
            /\ wpc' = "recv"
            /\ pending' = NoResult
            /\ UNCHANGED cmdQ
       ELSE /\ WorkerLeaves
            /\ UNCHANGED <<resQ, wlog>>
    /\ UNCHANGED <<wctx, txOpen, rxOpen, issued, wlast>>
    /\ UNCHANGED notWorker

\* the Finalize arm: the witness stack is sent, whether or not the send
\* succeeds, and the worker leaves the loop
WorkerFinalize ==
    /\ frontend = "protocol"
    /\ wpc = "recv"
    /\ cmdQ # <<>>
    /\ Head(cmdQ).kind = "Finalize"
    /\ LET c == Head(cmdQ)
           msg == Tagged(c.id, Result("WitnessStack", finalize(wctx)))
       IN /\ resQ' = IF rxOpen THEN Send(resQ, msg) ELSE resQ
          /\ wlog' = [(IF rxOpen THEN LogResult(wlog, msg) ELSE wlog)
                        EXCEPT !.received = wlog.received + 1, !.finalized = TRUE]
          /\ wlast' = [kind |-> c.kind, arg |-> c.arg,
                       result |-> Result("WitnessStack", finalize(wctx)),
                       pre |-> wctx, after |-> NoLoc]
    /\ WorkerLeaves
    /\ UNCHANGED <<wctx, txOpen, rxOpen, issued>>
    /\ UNCHANGED notWorker

\* recv fails: the channel is empty and the front-end dropped its sender
WorkerRecvClosed ==
    /\ frontend = "protocol"
    /\ wpc = "recv"
    /\ cmdQ = <<>>
    /\ ~txOpen
    /\ WorkerLeaves
    /\ UNCHANGED <<wctx, resQ, txOpen, rxOpen, issued, wlog, wlast>>
    /\ UNCHANGED notWorker

(***************************************************************************)
(* The front-end of the protocol: it sends commands, receives results, and *)
(* may drop either end of its channels at any time.                        *)
(***************************************************************************)
FrontSend ==
    /\ frontend = "protocol"
    /\ txOpen
    /\ issued < MaxCmds
    /\ wpc # "done"
    /\ \E c \in Commands :
          cmdQ' = Send(cmdQ, [id |-> issued + 1, kind |-> c.kind, arg |-> c.arg])
    /\ issued' = issued + 1
    /\ UNCHANGED <<wctx, resQ, txOpen, rxOpen, wpc, pending, wlog, wlast>>
    /\ UNCHANGED notWorker

\* send fails: the worker has dropped its receiver
FrontSendRejected ==
    /\ frontend = "protocol"
    /\ txOpen
    /\ issued < MaxCmds
    /\ wpc = "done"
    /\ issued' = issued + 1
    /\ wlog' = [wlog EXCEPT !.rejected = wlog.rejected + 1]
    /\ UNCHANGED <<wctx, cmdQ, resQ, txOpen, rxOpen, wpc, pending, wlast>>
    /\ UNCHANGED notWorker

FrontRecv ==
    /\ frontend = "protocol"
    /\ rxOpen
    /\ resQ # <<>>
    /\ resQ' = Tail(resQ)
    /\ UNCHANGED <<wctx, cmdQ, txOpen, rxOpen, wpc, pending, issued, wlog, wlast>>
    /\ UNCHANGED notWorker

FrontDropSender ==
    /\ frontend = "protocol"
    /\ txOpen
    /\ txOpen' = FALSE
    /\ UNCHANGED <<wctx, cmdQ, resQ, rxOpen, wpc, pending, issued, wlog, wlast>>
    /\ UNCHANGED notWorker

\* the results still queued are dropped with the receiver
FrontDropReceiver ==
    /\ frontend = "protocol"
    /\ rxOpen
    /\ rxOpen' = FALSE
    /\ resQ' = <<>>
    /\ UNCHANGED <<wctx, cmdQ, txOpen, wpc, pending, issued, wlog, wlast>>
    /\ UNCHANGED notWorker

WorkerInit ==
    /\ wctx = DebugContextNew(initial_witness)
    /\ cmdQ = <<>>
    /\ resQ = <<>>
    /\ txOpen = TRUE
    /\ rxOpen = TRUE
    /\ wpc = "recv"
    /\ pending = NoResult
    /\ issued = 0
    /\ wlog = [received |-> 0, results |-> <<>>, finalized |-> FALSE, rejected |-> 0]
    /\ wlast = [kind |-> "none", arg |-> NoArg, result |-> Result("none", "none"),
                pre |-> DebugContextNew(initial_witness), after |-> NoLoc]

(***************************************************************************)
(* debug_circuit (lib.rs): a solver driven by the commands s and c.  The   *)
(* solver is a record                                                      *)
(*   ip       index of the next opcode                                     *)
(*   status   "InProgress", "Solved", "Failure" or "RequiresForeignCall"   *)
(*   resolved the foreign call of the opcode at ip has been resolved       *)
(*   wit      the witness map                                              *)
(*   error    the error of a failure                                       *)
(* Its Brillig opcode is solved as a whole and makes one foreign call.     *)
(***************************************************************************)
\* the errors of the solver (OpcodeResolutionError): an unsatisfied constraint
\* with a resolved or an unresolved (NoLoc) location, a failed Brillig
\* function with its call stack, or another error
NoError == [kind |-> "none", loc |-> NoLoc, stack |-> <<>>]

UnsatisfiedConstrain(loc) ==
    [kind |-> "UnsatisfiedConstrain", loc |-> loc, stack |-> <<>>]

BrilligFunctionFailed(stack) ==
    [kind |-> "BrilligFunctionFailed", loc |-> NoLoc, stack |-> stack]

BlackBoxFunctionFailed ==
    [kind |-> "BlackBoxFunctionFailed", loc |-> NoLoc, stack |-> <<>>]

\* the Brillig opcode fails when this input witness is zero
BrilligInput == 2

\* the errors the solver may report when the opcode at ip fails
SolverErrors(ip) ==
    IF Circuit[ip + 1] = "brillig"
    THEN << BrilligFunctionFailed(<<Brillig(ip, 1), Brillig(ip, 4)>>),
            BrilligFunctionFailed(<<Brillig(ip, 4), Brillig(ip, 1)>>),
            BrilligFunctionFailed(<<Brillig(ip, 1)>>) >>
    ELSE << UnsatisfiedConstrain(Acir(ip)),
            UnsatisfiedConstrain(NoLoc),
            BlackBoxFunctionFailed >>

ErrorPicks == {1, 2, 3}

\* circuit.assert_messages, a list of (location, message) pairs
MessageTables ==
    { <<>>,
      << [loc |-> Acir(0), msg |-> "first"],
         [loc |-> Brillig(1, 4), msg |-> "callee"],
         [loc |-> Acir(0), msg |-> "second"] >> }

ACVMNew(witness) ==
    [ip |-> 0, status |-> "InProgress", resolved |-> FALSE, wit |-> witness,
     error |-> NoError]

AcvmAdvance(a) ==
    [a EXCEPT !.ip = a.ip + 1, !.resolved = FALSE,
              !.status = IF a.ip + 1 >= Len(Circuit) THEN "Solved" ELSE "InProgress"]

AcvmFail(a, pick) ==
    [a EXCEPT !.status = "Failure", !.error = SolverErrors(a.ip)[pick]]

\* ACVM::solve_opcode; pick tells which error the solver reports if the
\* opcode fails
solve_opcode(a, pick) ==
    IF a.status \in {"Solved", "Failure"} THEN a
    ELSE IF Circuit[a.ip + 1] = "brillig"
         THEN IF ~a.resolved THEN [a EXCEPT !.status = "RequiresForeignCall"]
              ELSE IF a.wit[BrilligInput] = 0 THEN AcvmFail(a, pick)
              ELSE AcvmAdvance(a)
    ELSE IF a.wit[AssertWitness[a.ip + 1]] = 1 THEN AcvmAdvance(a)
    ELSE AcvmFail(a, pick)

resolve_pending_foreign_call(a) ==
    [a EXCEPT !.status = "InProgress", !.resolved = TRUE]

\* the closure get_assert_message: the message of the first pair registered
\* for the location
NoMessage == "(none)"

get_assert_message(messages, loc) ==
    IF \E i \in 1..Len(messages) : messages[i].loc = loc
    THEN LET first == CHOOSE i \in 1..Len(messages) :
                          /\ messages[i].loc = loc
                          /\ \A k \in 1..(i - 1) : messages[k].loc # loc
         IN messages[first].msg
    ELSE NoMessage

\* the call stack taken from the error, if it has one
NoStack == [some |-> FALSE, stack |-> <<>>]

SomeStack(stack) == [some |-> TRUE, stack |-> stack]

call_stack(error) ==
    CASE error.kind = "UnsatisfiedConstrain" /\ error.loc # NoLoc ->
           SomeStack(<<error.loc>>)
      [] error.kind = "BrilligFunctionFailed" -> SomeStack(error.stack)
      [] OTHER -> NoStack

\* nargo's ExecutionError
NoExecutionError ==
    [kind |-> "none", msg |-> NoMessage, stack |-> <<>>, error |-> NoError]

AssertionFailed(msg, stack) ==
    [kind |-> "AssertionFailed", msg |-> msg, stack |-> stack, error |-> NoError]

SolvingError(error) ==
    [kind |-> "SolvingError", msg |-> NoMessage, stack |-> <<>>, error |-> error]

\* a lookup of the message at any location of the call stack
execution_error_any_location(messages, error) ==
    LET cs == call_stack(error) IN
    IF cs.some /\ \E i \in 1..Len(cs.stack) :
                      get_assert_message(messages, cs.stack[i]) # NoMessage
    THEN LET i == CHOOSE k \in 1..Len(cs.stack) :
                      get_assert_message(messages, cs.stack[k]) # NoMessage
         IN AssertionFailed(get_assert_message(messages, cs.stack[i]), cs.stack)
    ELSE SolvingError(error)

\* the ExecutionError built in the Failure arm of step_opcode
execution_error(messages, error) ==
    LET cs == call_stack(error) IN
    IF cs.some /\ get_assert_message(messages, cs.stack[Len(cs.stack)]) # NoMessage
    THEN AssertionFailed(get_assert_message(messages, cs.stack[Len(cs.stack)]),
                         cs.stack)
    ELSE SolvingError(error)

\* a step that turns a failed foreign call into a solving error
step_opcode_converts_foreign_call_error(a, messages, fcOk, pick) ==
    LET b == solve_opcode(a, pick) IN
    CASE b.status = "Solved" -> [acvm |-> b, res |-> "Done", err |-> NoExecutionError]
      [] b.status = "InProgress" -> [acvm |-> b, res |-> "Ok", err |-> NoExecutionError]
      [] b.status = "Failure" ->
           [acvm |-> b, res |-> "ExecutionError",
            err |-> execution_error(messages, b.error)]
      [] OTHER ->
           IF fcOk THEN [acvm |-> resolve_pending_foreign_call(b), res |-> "Ok",
                         err |-> NoExecutionError]
           ELSE [acvm |-> b, res |-> "ExecutionError", err |-> SolvingError(NoError)]

\* a step that runs the executor but returns with the call still pending in
\* the solver
step_opcode_leaves_call_pending(a, messages, fcOk, pick) ==
    LET b == solve_opcode(a, pick) IN
    CASE b.status = "Solved" -> [acvm |-> b, res |-> "Done", err |-> NoExecutionError]
      [] b.status = "InProgress" -> [acvm |-> b, res |-> "Ok", err |-> NoExecutionError]
      [] b.status = "Failure" ->
           [acvm |-> b, res |-> "ExecutionError",
            err |-> execution_error(messages, b.error)]
      [] OTHER ->
           IF fcOk THEN [acvm |-> [b EXCEPT !.resolved = TRUE], res |-> "Ok",
                         err |-> NoExecutionError]
           ELSE [acvm |-> b, res |-> "ForeignCallError", err |-> NoExecutionError]

\* DebugContext::step_opcode; fcOk tells whether the foreign-call executor
\* succeeds.  res is Ok or Done, or names the DebuggingError returned, and
\* err is the ExecutionError it carries
step_opcode(a, messages, fcOk, pick) ==
    LET b == solve_opcode(a, pick) IN
    CASE b.status = "Solved" -> [acvm |-> b, res |-> "Done", err |-> NoExecutionError]
      [] b.status = "InProgress" -> [acvm |-> b, res |-> "Ok", err |-> NoExecutionError]
      [] b.status = "Failure" ->
           [acvm |-> b, res |-> "ExecutionError",
            err |-> execution_error(messages, b.error)]
      [] OTHER ->
           IF fcOk THEN [acvm |-> resolve_pending_foreign_call(b), res |-> "Ok",
                         err |-> NoExecutionError]
           ELSE [acvm |-> b, res |-> "ForeignCallError", err |-> NoExecutionError]

\* a cont that reports completion after its first step
cont_first_step(a, messages, fcOk, pick) ==
    LET r == step_opcode(a, messages, fcOk, pick) IN
    IF r.res = "Ok" THEN [acvm |-> r.acvm, res |-> "Done", err |-> r.err] ELSE r

RECURSIVE circuit_cont(_, _, _, _)
circuit_cont(a, messages, fcOk, pick) ==
    LET r == step_opcode(a, messages, fcOk, pick) IN
    IF r.res = "Ok" THEN circuit_cont(r.acvm, messages, fcOk, pick) ELSE r

\* what a command does to the REPL loop: an error is critical and ends
\* repl.run with Err, which debug_circuit unwraps
map_command_status(res) ==
    CASE res = "Ok" -> "running"
      [] res = "Done" -> "quit"
      [] OTHER -> "panicked"

\* show_current_vm_status indexes the opcodes with the instruction pointer
ShowsStatus(a) == a.ip < Len(Circuit)

CircuitStep ==
    /\ frontend = "circuit"
    /\ lrepl = "running"
    /\ \E fcOk \in BOOLEAN, pick \in ErrorPicks :
          LET r == step_opcode(acvm, assert_messages, fcOk, pick) IN
          /\ acvm' = r.acvm
          /\ llast' = [cmd |-> "s", res |-> r.res, err |-> r.err, pre |-> acvm]
          /\ IF r.res \in {"Ok", "Done"} /\ ShowsStatus(r.acvm)
             THEN /\ solved' = (r.res = "Done")
                  /\ lrepl' = map_command_status(r.res)
             ELSE /\ solved' = solved
                  /\ lrepl' = "panicked"
    /\ UNCHANGED assert_messages
    /\ UNCHANGED notCircuit

CircuitCont ==
    /\ frontend = "circuit"
    /\ lrepl = "running"
    /\ \E fcOk \in BOOLEAN, pick \in ErrorPicks :
          LET r == circuit_cont(acvm, assert_messages, fcOk, pick) IN
          /\ acvm' = r.acvm
          /\ llast' = [cmd |-> "c", res |-> r.res, err |-> r.err, pre |-> acvm]
          /\ solved' = IF r.res = "Done" THEN TRUE ELSE solved
          /\ lrepl' = map_command_status(r.res)
    /\ UNCHANGED assert_messages
    /\ UNCHANGED notCircuit

\* the user leaves the REPL with its quit command
CircuitQuit ==
    /\ frontend = "circuit"
    /\ lrepl = "running"
    /\ lrepl' = "quit"
    /\ llast' = [cmd |-> "quit", res |-> "Ok", err |-> NoExecutionError, pre |-> acvm]
    /\ UNCHANGED <<acvm, solved, assert_messages>>
    /\ UNCHANGED notCircuit

\* the value debug_circuit returns once the REPL has ended
DebugCircuitReturns ==
    IF solved THEN [ok |-> TRUE, witness |-> acvm.wit]
    ELSE [ok |-> FALSE, witness |-> "Halted"]

CircuitInit ==
    /\ acvm \in {ACVMNew(w) : w \in [Witnesses -> FieldValues]}
    /\ assert_messages \in MessageTables
    /\ solved = FALSE
    /\ lrepl = "running"
    /\ llast = [cmd |-> "none", res |-> "Ok", err |-> NoExecutionError, pre |-> acvm]

(***************************************************************************)
(* The debug-variable store, DebugVars (debug_vars.rs), and the decoding   *)
(* of values (noirc_printable_type).  A type is a record with its kind and *)
(* the parameters of the kind; a value is a record with its kind and       *)
(*   f      the field element of a Field                                   *)
(*   items  the elements of a Vec                                          *)
(*   map    the function from field names to values of a Struct            *)
(* A store is a record                                                     *)
(*   id_to_name  function from the named variable ids to names             *)
(*   frames      sequence of [fn_id, vars], vars a function from the       *)
(*               variable ids bound in the frame to values; the top frame  *)
(*               is the last                                               *)
(*   id_to_type  function from the typed variable ids to type ids          *)
(*   types       function from the registered type ids to types            *)
(* An operation of the store returns [store, panicked]; a panic leaves the *)
(* store as it was, and ends the thread that owns the store.               *)
(***************************************************************************)
NoLength == -1

FieldT == [kind |-> "Field"]

ArrayT(length, typ) == [kind |-> "Array", length |-> length, typ |-> typ]

TupleT(types) == [kind |-> "Tuple", types |-> types]

StructT(fields) == [kind |-> "Struct", fields |-> fields]

ReferenceT == [kind |-> "MutableReference"]

FieldV(f) == [kind |-> "Field", f |-> f]

VecV(items) == [kind |-> "Vec", items |-> items]

StructV(map) == [kind |-> "Struct", map |-> map]

OtherV == [kind |-> "Other"]

\* a string value is kept as the bytes of its UTF-8 text
StringV(bytes) == [kind |-> "String", bytes |-> bytes]

SignedT(width) == [kind |-> "SignedInteger", width |-> width]

UnsignedT(width) == [kind |-> "UnsignedInteger", width |-> width]

BooleanT == [kind |-> "Boolean"]

StringT(length) == [kind |-> "String", length |-> length]

NamedStructT(name, fields) == [kind |-> "Struct", name |-> name, fields |-> fields]

FunctionT(name, arguments) == [kind |-> "Function", name |-> name, arguments |-> arguments]

UnitT == [kind |-> "Unit"]

SingleFieldKinds == {"Field", "SignedInteger", "UnsignedInteger", "Boolean"}

\* a continuation byte of a UTF-8 sequence
Cont(bytes, i) == i <= Len(bytes) /\ bytes[i] >= 128 /\ bytes[i] <= 191

RECURSIVE from_utf8(_)
\* str::from_utf8(bytes).is_ok(): the bytes are well-formed UTF-8
from_utf8(bytes) ==
    IF bytes = <<>> THEN TRUE
    ELSE LET b == bytes[1]
             second == IF Len(bytes) >= 2 THEN bytes[2] ELSE 0
             after(n) == Len(bytes) >= n /\ from_utf8(SubSeq(bytes, n + 1, Len(bytes)))
         IN CASE b < 128 -> after(1)
              [] b >= 194 /\ b <= 223 -> Cont(bytes, 2) /\ after(2)
              [] b = 224 -> second >= 160 /\ second <= 191 /\ Cont(bytes, 3) /\ after(3)
              [] b = 237 -> second >= 128 /\ second <= 159 /\ Cont(bytes, 3) /\ after(3)
              [] b >= 225 /\ b <= 239 /\ b # 237 ->
                     Cont(bytes, 2) /\ Cont(bytes, 3) /\ after(3)
              [] b = 240 -> /\ second >= 144 /\ second <= 191
                            /\ Cont(bytes, 3) /\ Cont(bytes, 4) /\ after(4)
              [] b >= 241 /\ b <= 243 ->
                     Cont(bytes, 2) /\ Cont(bytes, 3) /\ Cont(bytes, 4) /\ after(4)
              [] b = 244 -> /\ second >= 128 /\ second <= 143
                            /\ Cont(bytes, 3) /\ Cont(bytes, 4) /\ after(4)
              [] OTHER -> FALSE

\* One character per field element: the element's last byte, every other byte
\* asserted zero, and the bytes unwrapped as UTF-8.  [ok, bytes]; ok is FALSE
\* when the assertion or the unwrap panics.
decode_string_value(field_elements) ==
    IF /\ \A i \in 1..Len(field_elements) : field_elements[i] < 256
       /\ from_utf8(field_elements)
    THEN [ok |-> TRUE, bytes |-> field_elements]
    ELSE [ok |-> FALSE, bytes |-> <<>>]

\* the iterator ran out of field elements: unwrap on None
DecodePanic == [ok |-> FALSE, value |-> OtherV, rest |-> <<>>]

RECURSIVE decode_each(_, _)
RECURSIVE decode_value(_, _)

\* the shortcut a mutation of decode_value takes: whatever the type, one field
\* element is read and returned as a field
decode_value_as_field(values, typ) ==
    IF values = <<>> THEN DecodePanic
    ELSE [ok |-> TRUE, value |-> FieldV(Head(values)), rest |-> Tail(values)]

\* the types decoded one after the other from the same iterator
decode_each(values, types) ==
    IF types = <<>> THEN [ok |-> TRUE, items |-> <<>>, rest |-> values]
    ELSE LET d == decode_value(values, Head(types)) IN
         IF ~d.ok THEN [ok |-> FALSE, items |-> <<>>, rest |-> <<>>]
         ELSE LET r == decode_each(d.rest, Tail(types)) IN
              [ok |-> r.ok, items |-> <<d.value>> \o r.items, rest |-> r.rest]

\* [ok, value, rest]: the value decoded and what is left of the iterator
decode_value(values, typ) ==
    CASE typ.kind \in SingleFieldKinds ->
           IF values = <<>> THEN DecodePanic
           ELSE [ok |-> TRUE, value |-> FieldV(Head(values)), rest |-> Tail(values)]
      [] typ.kind = "Array" /\ typ.length = NoLength ->
           IF values = <<>> THEN DecodePanic
           ELSE LET r == decode_each(Tail(values), [i \in 1..Head(values) |-> typ.typ]) IN
                IF r.ok THEN [ok |-> TRUE, value |-> VecV(r.items), rest |-> r.rest]
                ELSE DecodePanic
      [] typ.kind = "Array" /\ typ.length # NoLength ->
           LET r == decode_each(values, [i \in 1..typ.length |-> typ.typ]) IN
           IF r.ok THEN [ok |-> TRUE, value |-> VecV(r.items), rest |-> r.rest]
           ELSE DecodePanic
      [] typ.kind = "Tuple" ->
           LET r == decode_each(values, typ.types) IN
           IF r.ok THEN [ok |-> TRUE, value |-> VecV(r.items), rest |-> r.rest]
           ELSE DecodePanic
      [] typ.kind = "String" ->
           \* take(length) stops early when the iterator runs out
           LET n == IF Len(values) < typ.length THEN Len(values) ELSE typ.length
               string == decode_string_value(SubSeq(values, 1, n))
           IN IF string.ok
              THEN [ok |-> TRUE, value |-> StringV(string.bytes),
                    rest |-> SubSeq(values, n + 1, Len(values))]
              ELSE DecodePanic
      [] typ.kind = "Struct" ->
           LET n == Len(typ.fields)
               r == decode_each(values, [i \in 1..n |-> typ.fields[i].typ])
               keys == {typ.fields[i].name : i \in 1..n}
               \* a later field of the same name replaces the earlier one
               at(key) == CHOOSE i \in 1..n :
                              /\ typ.fields[i].name = key
                              /\ \A j \in 1..n : typ.fields[j].name = key => j <= i
           IN IF r.ok
              THEN [ok |-> TRUE, value |-> StructV([key \in keys |-> r.items[at(key)]]),
                    rest |-> r.rest]
              ELSE DecodePanic
      [] OTHER -> [ok |-> TRUE, value |-> OtherV, rest |-> values]

NoVars == [v \in {} |-> OtherV]

DebugVarsNew(names) ==
    [id_to_name |-> names, frames |-> <<>>,
     id_to_type |-> [v \in {} |-> 0], types |-> [t \in {} |-> FieldT]]

Returned(store) == [store |-> store, panicked |-> FALSE]

Panicked(store) == [store |-> store, panicked |-> TRUE]

\* the frames with the variables of the top frame replaced
WithTop(store, top_vars) ==
    LET n == Len(store.frames) IN
    [store EXCEPT !.frames = [store.frames EXCEPT ![n].vars = top_vars]]

\* an insert_variables that registers the types and forgets the names
insert_variables_without_names(store, decls) ==
    Returned([store EXCEPT
        !.id_to_type = [v \in DOMAIN decls |-> decls[v].typ] @@ store.id_to_type])

insert_variables(store, decls) ==
    Returned([store EXCEPT
        !.id_to_name = [v \in DOMAIN decls |-> decls[v].name] @@ store.id_to_name,
        !.id_to_type = [v \in DOMAIN decls |-> decls[v].typ] @@ store.id_to_type])

insert_types(store, types) ==
    Returned([store EXCEPT !.types = types @@ store.types])

\* an assign that takes a variable without a registered type for a Field
assign_defaults_to_field(store, var_id, values) ==
    IF store.frames = <<>> THEN Panicked(store)
    ELSE LET typ == IF /\ var_id \in DOMAIN store.id_to_type
                       /\ store.id_to_type[var_id] \in DOMAIN store.types
                    THEN store.types[store.id_to_type[var_id]]
                    ELSE FieldT
             d == decode_value(values, typ)
             top == store.frames[Len(store.frames)]
         IN IF ~d.ok THEN Panicked(store)
            ELSE Returned(WithTop(store, (var_id :> d.value) @@ top.vars))

assign(store, var_id, values) ==
    IF var_id \notin DOMAIN store.id_to_type THEN Panicked(store)
    ELSE IF store.id_to_type[var_id] \notin DOMAIN store.types THEN Panicked(store)
    ELSE IF store.frames = <<>> THEN Panicked(store)
    ELSE LET d == decode_value(values, store.types[store.id_to_type[var_id]])
             top == store.frames[Len(store.frames)]
         IN IF ~d.ok THEN Panicked(store)
            ELSE Returned(WithTop(store, (var_id :> d.value) @@ top.vars))

CursorPanic == [ok |-> FALSE, value |-> OtherV]

RECURSIVE assign_at(_, _, _, _)

\* the loop over the indexes and the final write: [ok, value], the value at
\* the cursor after the write
assign_at(cursor, cursor_type, indexes, values) ==
    IF indexes = <<>>
    THEN LET d == decode_value(values, cursor_type) IN
         IF d.ok THEN [ok |-> TRUE, value |-> d.value] ELSE CursorPanic
    ELSE
      LET index == Head(indexes) IN
      CASE cursor.kind = "Vec" /\ cursor_type.kind = "Array" ->
             IF cursor_type.length # NoLength /\ index >= cursor_type.length
             THEN CursorPanic
             ELSE IF cursor_type.length # NoLength
                     /\ cursor_type.length # Len(cursor.items)
             THEN CursorPanic
             ELSE IF index >= Len(cursor.items) THEN CursorPanic
             ELSE LET r == assign_at(cursor.items[index + 1], cursor_type.typ,
                                     Tail(indexes), values)
                  IN IF r.ok
                     THEN [ok |-> TRUE,
                           value |-> VecV([cursor.items EXCEPT ![index + 1] = r.value])]
                     ELSE CursorPanic
        [] cursor.kind = "Struct" /\ cursor_type.kind = "Struct" ->
             IF index >= Len(cursor_type.fields) THEN CursorPanic
             ELSE LET key == cursor_type.fields[index + 1].name
                      typ == cursor_type.fields[index + 1].typ
                  IN IF key \notin DOMAIN cursor.map THEN CursorPanic
                     ELSE LET r == assign_at(cursor.map[key], typ, Tail(indexes), values)
                          IN IF r.ok
                             THEN [ok |-> TRUE,
                                   value |-> StructV([cursor.map EXCEPT ![key] = r.value])]
                             ELSE CursorPanic
        [] cursor.kind = "Vec" /\ cursor_type.kind = "Tuple" ->
             IF index >= Len(cursor_type.types) THEN CursorPanic
             ELSE IF Len(cursor_type.types) # Len(cursor.items) THEN CursorPanic
             ELSE LET r == assign_at(cursor.items[index + 1], cursor_type.types[index + 1],
                                     Tail(indexes), values)
                  IN IF r.ok
                     THEN [ok |-> TRUE,
                           value |-> VecV([cursor.items EXCEPT ![index + 1] = r.value])]
                     ELSE CursorPanic
        [] OTHER -> CursorPanic

\* an assign_field that writes the decoded value over the whole variable
assign_field_over_variable(store, var_id, indexes, values) ==
    IF store.frames = <<>> THEN Panicked(store)
    ELSE LET top == store.frames[Len(store.frames)] IN
         IF \/ var_id \notin DOMAIN top.vars
            \/ var_id \notin DOMAIN store.id_to_type
            \/ store.id_to_type[var_id] \notin DOMAIN store.types
         THEN Panicked(store)
         ELSE LET d == decode_value(values, FieldT) IN
              IF ~d.ok THEN Panicked(store)
              ELSE Returned(WithTop(store, (var_id :> d.value) @@ top.vars))

\* an assign_field that skips a step it cannot take and writes at the cursor
assign_field_lenient(store, var_id, indexes, values) ==
    IF store.frames = <<>> THEN Panicked(store)
    ELSE LET top == store.frames[Len(store.frames)] IN
         IF \/ var_id \notin DOMAIN top.vars
            \/ var_id \notin DOMAIN store.id_to_type
            \/ store.id_to_type[var_id] \notin DOMAIN store.types
         THEN Panicked(store)
         ELSE LET typ == store.types[store.id_to_type[var_id]]
                  r == assign_at(top.vars[var_id], typ, indexes, values)
                  d == decode_value(values, typ)
              IN IF r.ok THEN Returned(WithTop(store, (var_id :> r.value) @@ top.vars))
                 ELSE IF d.ok
                 THEN Returned(WithTop(store, (var_id :> d.value) @@ top.vars))
                 ELSE Panicked(store)

assign_field(store, var_id, indexes, values) ==
    IF store.frames = <<>> THEN Panicked(store)
    ELSE LET top == store.frames[Len(store.frames)] IN
         IF var_id \notin DOMAIN top.vars THEN Panicked(store)
         ELSE IF var_id \notin DOMAIN store.id_to_type THEN Panicked(store)
         ELSE IF store.id_to_type[var_id] \notin DOMAIN store.types THEN Panicked(store)
         ELSE LET r == assign_at(top.vars[var_id], store.types[store.id_to_type[var_id]],
                                 indexes, values)
              IN IF r.ok THEN Returned(WithTop(store, (var_id :> r.value) @@ top.vars))
                 ELSE Panicked(store)

push_fn(store, fn_id) ==
    Returned([store EXCEPT
        !.frames = Append(store.frames, [fn_id |-> fn_id, vars |-> NoVars])])

\* a mutation of pop_fn: the top frame is expect()ed like everywhere else
pop_fn_expecting_frame(store) ==
    IF store.frames = <<>> THEN Panicked(store)
    ELSE Returned([store EXCEPT
             !.frames = SubSeq(store.frames, 1, Len(store.frames) - 1)])

\* Vec::pop on an empty vector returns None
pop_fn(store) ==
    IF store.frames = <<>> THEN Returned(store)
    ELSE Returned([store EXCEPT
             !.frames = SubSeq(store.frames, 1, Len(store.frames) - 1)])

Without(frame_vars, var_id) ==
    [v \in DOMAIN frame_vars \ {var_id} |-> frame_vars[v]]

\* a drop that removes the binding from every frame
drop_from_every_frame(store, var_id) ==
    IF store.frames = <<>> THEN Panicked(store)
    ELSE Returned([store EXCEPT !.frames =
             [k \in 1..Len(store.frames) |->
                 [store.frames[k] EXCEPT !.vars = Without(store.frames[k].vars, var_id)]]])

drop(store, var_id) ==
    IF store.frames = <<>> THEN Panicked(store)
    ELSE Returned(WithTop(store, Without(store.frames[Len(store.frames)].vars, var_id)))

\* the value the top frame binds var_id to, if any; the store is not changed
get(store, var_id) ==
    IF store.frames = <<>> THEN Panicked(store) ELSE Returned(store)

(***************************************************************************)
(* The calls made on the store.  Variable 2 is named when the store is     *)
(* built; variables 1 and 2 are declared, and the types registered, by     *)
(* calls that may come in any order and may come again.                    *)
(***************************************************************************)
VarIds == {1, 2}

InitialNames == (2 :> "s")

VarDecls ==
    { (1 :> [name |-> "x", typ |-> 1]),
      (2 :> [name |-> "s", typ |-> 2]) }

TypeTables ==
    { (1 :> ArrayT(2, FieldT))
        @@ (2 :> StructT(<<[name |-> "a", typ |-> FieldT],
                           [name |-> "b", typ |-> ArrayT(NoLength, FieldT)]>>)),
      (1 :> TupleT(<<FieldT, ArrayT(2, FieldT), FieldT>>)) @@ (2 :> ReferenceT) }

\* the field elements passed with a value
ValueStreams == {<<1>>, <<0, 1, 1, 0>>}

IndexPaths == {<<>>, <<0>>, <<1>>, <<3>>, <<1, 0>>}

NoCall == [op |-> "none", var_id |-> 0, indexes |-> <<>>, values |-> <<>>]

Call(op, var_id, indexes, values) ==
    [op |-> op, var_id |-> var_id, indexes |-> indexes, values |-> values]

\* a call on a live store: the store after it, and the record of the call
StoreCall(call, r) ==
    /\ frontend = "store"
    /\ ~dlast.panicked
    /\ dops < MaxOps
    /\ debug_vars' = r.store
    /\ dlast' = [call |-> call, pre |-> debug_vars, panicked |-> r.panicked]
    /\ dops' = dops + 1
    /\ UNCHANGED notStore

StoreInsertVariables ==
    \E decls \in VarDecls :
        StoreCall(Call("insert_variables", 0, <<>>, <<>>),
                  insert_variables(debug_vars, decls))

StoreInsertTypes ==
    \E types \in TypeTables :
        StoreCall(Call("insert_types", 0, <<>>, <<>>), insert_types(debug_vars, types))

StorePushFn == StoreCall(Call("push_fn", 0, <<>>, <<>>), push_fn(debug_vars, 0))

StorePopFn == StoreCall(Call("pop_fn", 0, <<>>, <<>>), pop_fn(debug_vars))

StoreAssign ==
    \E var_id \in VarIds, values \in ValueStreams :
        StoreCall(Call("assign", var_id, <<>>, values),
                  assign(debug_vars, var_id, values))

StoreAssignField ==
    \E var_id \in VarIds, indexes \in IndexPaths, values \in ValueStreams :
        StoreCall(Call("assign_field", var_id, indexes, values),
                  assign_field(debug_vars, var_id, indexes, values))

StoreDrop ==
    \E var_id \in VarIds :
        StoreCall(Call("drop", var_id, <<>>, <<>>), drop(debug_vars, var_id))

StoreGet ==
    \E var_id \in VarIds :
        StoreCall(Call("get", var_id, <<>>, <<>>), get(debug_vars, var_id))

\* assign_deref is a stub: its body is unimplemented![], which panics with
\* "not implemented" whatever the arguments, before touching the store.
assign_deref(store, var_id, values) == Panicked(store)

StoreAssignDeref ==
    \E var_id \in VarIds, values \in ValueStreams :
        StoreCall(Call("assign_deref", var_id, <<>>, values),
                  assign_deref(debug_vars, var_id, values))

StoreInit ==
    /\ debug_vars = DebugVarsNew(InitialNames)
    /\ dlast = [call |-> NoCall, pre |-> DebugVarsNew(InitialNames), panicked |-> FALSE]
    /\ dops = 0

(***************************************************************************)
(* Printable types and values: noirc_printable_type/src/lib.rs.            *)
(***************************************************************************)
\* field_count answers None for a type of no fixed size
NoCount == -1

RECURSIVE field_count(_)
RECURSIVE field_count_sum(_)

\* the fold over the component types: None as soon as one of them is None
field_count_sum(types) ==
    IF types = <<>> THEN 0
    ELSE LET c == field_count_sum(SubSeq(types, 1, Len(types) - 1))
             fc == field_count(types[Len(types)])
         IN IF c = NoCount \/ fc = NoCount THEN NoCount ELSE c + fc

\* the shortcut a mutation of field_count takes: every type is one element
field_count_one_each(typ) == 1

\* Lengths and widths here are far below 2^32, so the u32 arithmetic of the
\* code does not wrap.
field_count(typ) ==
    CASE typ.kind \in SingleFieldKinds -> 1
      [] typ.kind = "Array" ->
           IF typ.length = NoLength \/ field_count(typ.typ) = NoCount THEN NoCount
           ELSE field_count(typ.typ) * typ.length
      [] typ.kind = "Tuple" -> field_count_sum(typ.types)
      [] typ.kind = "Struct" ->
           field_count_sum([i \in 1..Len(typ.fields) |-> typ.fields[i].typ])
      [] typ.kind = "String" -> typ.length
      [] OTHER -> 0

RECURSIVE encode_value(_, _)
RECURSIVE encode_each(_, _)

\* the values of a sequence laid out one after the other
encode_each(values, types) ==
    IF values = <<>> \/ types = <<>> THEN <<>>
    ELSE encode_value(Head(values), Head(types)) \o encode_each(Tail(values), Tail(types))

\* The flat layout the running program delivers a value in: a field, integer
\* or boolean is one element, a string one element per byte, an array or a
\* tuple its items in order, a struct its fields in declared order, and a
\* value without a printable form nothing.
encode_value(value, typ) ==
    CASE typ.kind \in SingleFieldKinds -> <<value.f>>
      [] typ.kind = "String" -> value.bytes
      [] typ.kind = "Array" ->
           encode_each(value.items, [i \in 1..Len(value.items) |-> typ.typ])
      [] typ.kind = "Tuple" -> encode_each(value.items, typ.types)
      [] typ.kind = "Struct" ->
           encode_each([i \in 1..Len(typ.fields) |-> value.map[typ.fields[i].name]],
                       [i \in 1..Len(typ.fields) |-> typ.fields[i].typ])
      [] OTHER -> <<>>

HexDigits == <<"0", "1", "2", "3", "4", "5", "6", "7",
               "8", "9", "a", "b", "c", "d", "e", "f">>

RECURSIVE to_hex(_)
\* the hexadecimal digits of a field element, leading zeroes trimmed
to_hex(n) == IF n = 0 THEN "" ELSE to_hex(n \div 16) \o HexDigits[(n % 16) + 1]

RECURSIVE HexLen(_)
HexLen(n) == IF n = 0 THEN 0 ELSE 1 + HexLen(n \div 16)

format_field_string(field) ==
    IF field = 0 THEN "0x00"
    ELSE IF HexLen(field) % 2 # 0 THEN "0x" \o "0" \o to_hex(field)
         ELSE "0x" \o to_hex(field)

\* the text of one byte of a string; bytes outside this table print as "?"
CharOf(byte) ==
    CASE byte = 104 -> "h"
      [] byte = 105 -> "i"
      [] OTHER -> "?"

RECURSIVE StringOf(_)
StringOf(bytes) == IF bytes = <<>> THEN "" ELSE CharOf(Head(bytes)) \o StringOf(Tail(bytes))

RECURSIVE NamesOf(_)
NamesOf(arguments) ==
    IF arguments = <<>> THEN ""
    ELSE Head(arguments).name
         \o (IF Len(arguments) > 1 THEN ", " ELSE "") \o NamesOf(Tail(arguments))

\* outcomes of to_string: Some(text), None, or a panic on the way
Some(text) == [tag |-> "Some", text |-> text]

None == [tag |-> "None", text |-> ""]

FormatPanic == [tag |-> "Panic", text |-> ""]

RECURSIVE to_string(_, _)
RECURSIVE display_each(_)

\* The items of an array, tuple or struct formatted in order and joined with
\* ", ".  Each item is formatted through format! or to_string() of its
\* Display, which panics when the Display fails; a struct field the value
\* does not have panics in map[key].
display_each(items) ==
    IF items = <<>> THEN Some("")
    ELSE LET item == Head(items)
             shown == IF item.has THEN to_string(item.value, item.typ) ELSE FormatPanic
             others == display_each(Tail(items))
         IN IF shown.tag # "Some" \/ others.tag # "Some" THEN FormatPanic
            ELSE Some(item.key \o shown.text
                      \o (IF Len(items) > 1 THEN ", " ELSE "") \o others.text)

to_string(value, typ) ==
    CASE value.kind = "Field" /\ typ.kind = "Field" -> Some(format_field_string(value.f))
      [] value.kind = "Field" /\ typ.kind = "UnsignedInteger" ->
           Some(ToString(value.f % (2 ^ typ.width)))
      [] value.kind = "Field" /\ typ.kind = "SignedInteger" ->
           IF value.f \div (2 ^ (typ.width - 1)) = 1
           THEN Some("-" \o ToString((2 ^ typ.width) - value.f))
           ELSE Some(ToString(value.f))
      [] value.kind = "Field" /\ typ.kind = "Boolean" ->
           IF value.f = 1 THEN Some("true") ELSE Some("false")
      [] value.kind = "Field" /\ typ.kind = "Function" ->
           Some("<<fn " \o typ.name \o "(" \o NamesOf(typ.arguments) \o ")>>")
      [] typ.kind = "MutableReference" -> Some("<<mutable ref>>")
      [] value.kind = "Vec" /\ typ.kind = "Array" ->
           LET shown == display_each([i \in 1..Len(value.items) |->
                            [key |-> "", has |-> TRUE,
                             value |-> value.items[i], typ |-> typ.typ]])
           IN IF shown.tag = "Some" THEN Some("[" \o shown.text \o "]") ELSE FormatPanic
      [] value.kind = "String" /\ typ.kind = "String" -> Some(StringOf(value.bytes))
      [] value.kind = "Struct" /\ typ.kind = "Struct" ->
           LET shown == display_each([i \in 1..Len(typ.fields) |->
                            LET key == typ.fields[i].name
                                has == key \in DOMAIN value.map
                            IN [key |-> key \o ": ", has |-> has,
                                value |-> IF has THEN value.map[key] ELSE OtherV,
                                typ |-> typ.fields[i].typ]])
           IN IF shown.tag = "Some"
              THEN Some(typ.name \o " { " \o shown.text \o " }")
              ELSE FormatPanic
      [] value.kind = "Vec" /\ typ.kind = "Tuple" ->
           LET n == IF Len(value.items) < Len(typ.types)
                    THEN Len(value.items) ELSE Len(typ.types)
               shown == display_each([i \in 1..n |->
                            [key |-> "", has |-> TRUE,
                             value |-> value.items[i], typ |-> typ.types[i]]])
           IN IF shown.tag = "Some" THEN Some("(" \o shown.text \o ")") ELSE FormatPanic
      [] OTHER -> None

\* Display for PrintableValueDisplay::Plain: the text, or a formatting error
\* when to_string has no rule for the pair
fmt(value, typ) ==
    LET output_string == to_string(value, typ) IN
    CASE output_string.tag = "Some" -> [tag |-> "Ok", text |-> output_string.text]
      [] output_string.tag = "None" -> [tag |-> "Err", text |-> ""]
      [] OTHER -> FormatPanic

RECURSIVE InRange(_, _)
\* value is a value of type typ as the running program can deliver one
InRange(value, typ) ==
    CASE typ.kind = "Field" -> value.kind = "Field"
      [] typ.kind \in {"SignedInteger", "UnsignedInteger"} ->
           value.kind = "Field" /\ value.f < 2 ^ typ.width
      [] typ.kind = "Boolean" -> value.kind = "Field" /\ value.f \in {0, 1}
      [] typ.kind = "String" ->
           /\ value.kind = "String"
           /\ Len(value.bytes) = typ.length
           /\ decode_string_value(value.bytes).ok
      [] typ.kind = "Array" ->
           /\ value.kind = "Vec"
           /\ typ.length # NoLength => Len(value.items) = typ.length
           /\ \A i \in 1..Len(value.items) : InRange(value.items[i], typ.typ)
      [] typ.kind = "Tuple" ->
           /\ value.kind = "Vec"
           /\ Len(value.items) = Len(typ.types)
           /\ \A i \in 1..Len(typ.types) : InRange(value.items[i], typ.types[i])
      [] typ.kind = "Struct" ->
           /\ value.kind = "Struct"
           /\ DOMAIN value.map = {typ.fields[i].name : i \in 1..Len(typ.fields)}
           /\ \A i \in 1..Len(typ.fields) :
                  InRange(value.map[typ.fields[i].name], typ.fields[i].typ)
      [] OTHER -> value = OtherV

\* the types, field streams and values decoding and formatting are run on
PairT == NamedStructT("Pair", <<[name |-> "a", typ |-> FieldT],
                               [name |-> "b", typ |-> ArrayT(2, UnsignedT(8))]>>)

PrintableTypes ==
    {FieldT, UnsignedT(8), SignedT(8), BooleanT, StringT(2),
     ArrayT(2, FieldT), ArrayT(NoLength, FieldT),
     TupleT(<<FieldT, TupleT(<<BooleanT, StringT(1)>>)>>),
     TupleT(<<FieldT, ArrayT(NoLength, FieldT)>>),
     PairT, UnitT, ReferenceT,
     FunctionT("f", <<[name |-> "x", typ |-> FieldT]>>)}

FieldStreams ==
    {<<>>, <<1>>, <<104, 105, 7>>, <<1, 0, 104, 1, 2>>, <<2, 1, 200, 3>>,
     <<300, 1, 1>>, <<1, 1, 300, 2>>}

PrintableValues ==
    {FieldV(0), FieldV(1), FieldV(200), FieldV(300),
     StringV(<<104, 105>>), StringV(<<104>>),
     VecV(<<>>), VecV(<<FieldV(1), FieldV(7)>>),
     VecV(<<FieldV(1), VecV(<<FieldV(1), StringV(<<105>>)>>)>>),
     VecV(<<FieldV(2), VecV(<<FieldV(3)>>)>>),
     StructV(("a" :> FieldV(1)) @@ ("b" :> VecV(<<FieldV(2), FieldV(3)>>))),
     StructV("a" :> FieldV(1)),
     OtherV}

NothingPrinted == [tag |-> "none"]

NoPrint == [typ |-> UnitT, from |-> "none", stream |-> <<>>, value |-> OtherV,
            op |-> "none", encoded |-> FALSE, out |-> NothingPrinted]

\* a run starts from a type and either a field stream to decode or a value to
\* encode or format
PrintInputs ==
    {[NoPrint EXCEPT !.typ = typ, !.from = "stream", !.stream = stream] :
         typ \in PrintableTypes, stream \in FieldStreams}
    \cup {[NoPrint EXCEPT !.typ = typ, !.from = "value", !.value = value] :
              typ \in PrintableTypes, value \in PrintableValues}

PrintInit == pt \in IF frontend = "printable" THEN PrintInputs ELSE {NoPrint}

\* the running program lays a value of a fixed-size type out as field elements
PrintEncode ==
    /\ frontend = "printable"
    /\ pt.op = "none" /\ pt.from = "value"
    /\ InRange(pt.value, pt.typ)
    /\ field_count(pt.typ) # NoCount
    /\ pt' = [pt EXCEPT !.stream = encode_value(pt.value, pt.typ), !.op = "encode"]
    /\ UNCHANGED notPrint

\* decode_value runs over the stream, given or just encoded
PrintDecode ==
    /\ frontend = "printable"
    /\ \/ pt.op = "none" /\ pt.from = "stream"
       \/ pt.op = "encode"
    /\ pt' = [pt EXCEPT !.out = decode_value(pt.stream, pt.typ), !.op = "decode",
                        !.encoded = (pt.op = "encode")]
    /\ UNCHANGED notPrint

\* the value, given or just decoded, is formatted with its type
PrintFormat ==
    /\ frontend = "printable"
    /\ \/ /\ pt.op = "none" /\ pt.from = "value"
          /\ pt' = [pt EXCEPT !.out = fmt(pt.value, pt.typ), !.op = "format"]
       \/ /\ pt.op = "decode" /\ pt.out.ok
          /\ pt' = [pt EXCEPT !.value = pt.out.value,
                              !.out = fmt(pt.out.value, pt.typ), !.op = "format"]
    /\ UNCHANGED notPrint

(***************************************************************************)
(* The source instrumenter: noirc_frontend/src/debug/mod.rs.  The syntax   *)
(* tree is the part of ast the pass looks at: identifier, mutable, tuple   *)
(* and struct patterns; literals, variables, infix, tuple, constructor,    *)
(* block and call expressions; let, assign (to an identifier), expression, *)
(* semi and for statements.                                                *)
(***************************************************************************)
PIdentifier(id) == [kind |-> "Identifier", id |-> id]

PMutable(pattern) == [kind |-> "Mutable", pattern |-> pattern]

PTuple(patterns) == [kind |-> "Tuple", patterns |-> patterns]

\* pids: the (field name, pattern) pairs of a struct pattern
PStruct(pids) == [kind |-> "Struct", pids |-> pids]

Integer(x) == [kind |-> "Integer", value |-> x]

UnitLiteral == [kind |-> "Unit"]

Variable(name) == [kind |-> "Variable", name |-> name]

Infix(lhs, rhs) == [kind |-> "Infix", lhs |-> lhs, rhs |-> rhs]

TupleE(exprs) == [kind |-> "Tuple", exprs |-> exprs]

Constructor(fields) == [kind |-> "Constructor", fields |-> fields]

Block(statements) == [kind |-> "Block", statements |-> statements]

\* if condition consequence else alternative; NoElse when there is no else
If(condition, consequence, alternative) ==
    [kind |-> "If", condition |-> condition, consequence |-> consequence,
     alternative |-> alternative]

NoElse == [kind |-> "None"]

\* |parameters| body
Lambda(parameters, body) == [kind |-> "Lambda", parameters |-> parameters, body |-> body]

CallE(func, arguments) == [kind |-> "Call", func |-> func, arguments |-> arguments]

Let(pattern, expression) == [kind |-> "Let", pattern |-> pattern, expression |-> expression]

Assign(lvalue, expression) == [kind |-> "Assign", lvalue |-> lvalue, expression |-> expression]

\* the lvalues: an identifier, a field of an lvalue, an element of an lvalue
LIdent(id) == [kind |-> "Ident", id |-> id]

MemberAccess(object, field_name) ==
    [kind |-> "MemberAccess", object |-> object, field_name |-> field_name]

LIndex(array, index) == [kind |-> "Index", array |-> array, index |-> index]

\* Literal::Array(ArrayLiteral::Standard(exprs))
ArrayLiteral(exprs) == [kind |-> "Array", exprs |-> exprs]

Expression(expr) == [kind |-> "Expression", expr |-> expr]

Semi(expr) == [kind |-> "Semi", expr |-> expr]

\* for identifier in start..end block
For(identifier, start, end, block) ==
    [kind |-> "For", identifier |-> identifier, start |-> start, end |-> end,
     block |-> block]

FunctionDefinition(parameters, body) == [parameters |-> parameters, body |-> body]

NoScope == [name \in {} |-> 0]

\* lookup_var answers None
NoVarId == -1

\* DebugState::default().  variables is the var_id => var_name table and scope
\* the stack of var_name => var_id maps.  allocated lists the (var_id, name)
\* pairs insert_var handed out, in order; descending is the order in which this
\* run's hash maps happen to iterate (by ascending or by descending var_id);
\* panicked records an expect() on a failed lookup.
DebugStateDefault(descending) ==
    [variables |-> NoScope, next_var_id |-> 0, scope |-> <<>>, enabled |-> TRUE,
     allocated |-> <<>>, descending |-> descending, panicked |-> FALSE,
     no_scope |-> FALSE]

\* the shortcut a mutation of insert_var takes: a name already in the table
\* gets the var_id it has
insert_var_reusing(state, var_name) ==
    IF \E id \in DOMAIN state.variables : state.variables[id] = var_name
    THEN LET var_id == CHOOSE id \in DOMAIN state.variables :
                           state.variables[id] = var_name
         IN [state |-> [state EXCEPT
                 !.scope[Len(state.scope)] = (var_name :> var_id) @@ @,
                 !.allocated = Append(@, [var_id |-> var_id, name |-> var_name])],
             var_id |-> var_id]
    ELSE [state |-> [state EXCEPT
              !.next_var_id = @ + 1,
              !.variables = (state.next_var_id :> var_name) @@ @,
              !.scope[Len(state.scope)] = (var_name :> state.next_var_id) @@ @,
              !.allocated = Append(@, [var_id |-> state.next_var_id, name |-> var_name])],
          var_id |-> state.next_var_id]

\* [state, var_id]; scope.last_mut().unwrap() panics when no scope has been
\* pushed, which no_scope records
insert_var(state, var_name) ==
    IF state.scope = <<>>
    THEN [state |-> [state EXCEPT !.panicked = TRUE, !.no_scope = TRUE],
          var_id |-> NoVarId]
    ELSE
    [state |-> [state EXCEPT
         !.next_var_id = @ + 1,
         !.variables = (state.next_var_id :> var_name) @@ @,
         !.scope[Len(state.scope)] = (var_name :> state.next_var_id) @@ @,
         !.allocated = Append(@, [var_id |-> state.next_var_id, name |-> var_name])],
     var_id |-> state.next_var_id]

RECURSIVE insert_vars(_, _)
\* insert_var for each of the names in order: [state, var_ids]
insert_vars(state, names) ==
    IF names = <<>> THEN [state |-> state, var_ids |-> <<>>]
    ELSE LET Rest(first) ==
                 LET Both(others) ==
                         [state |-> others.state,
                          var_ids |-> <<first.var_id>> \o others.var_ids]
                 IN Both(insert_vars(first.state, Tail(names)))
         IN Rest(insert_var(state, Head(names)))

RECURSIVE lookup_var_from(_, _, _)
lookup_var_from(scope, k, var_name) ==
    IF k = 0 THEN NoVarId
    ELSE IF var_name \in DOMAIN scope[k] THEN scope[k][var_name]
         ELSE lookup_var_from(scope, k - 1, var_name)

\* the innermost scope that has the name decides
lookup_var(state, var_name) == lookup_var_from(state.scope, Len(state.scope), var_name)

RECURSIVE pattern_vars_loop(_, _)
\* the loop of pattern_vars: patterns leave the queue at the front and the
\* sub-patterns of a tuple or struct join it at the back
pattern_vars_loop(stack, found) ==
    IF stack = <<>> THEN found
    ELSE LET pattern == Head(stack).pattern
             is_mut == Head(stack).is_mut
             rest == Tail(stack)
         IN CASE pattern.kind = "Identifier" ->
                   pattern_vars_loop(rest, Append(found, [id |-> pattern.id, is_mut |-> is_mut]))
              [] pattern.kind = "Mutable" ->
                   pattern_vars_loop(Append(rest, [pattern |-> pattern.pattern,
                                                   is_mut |-> TRUE]), found)
              [] pattern.kind = "Tuple" ->
                   pattern_vars_loop(
                       rest \o [i \in 1..Len(pattern.patterns) |->
                                   [pattern |-> pattern.patterns[i], is_mut |-> FALSE]],
                       found)
              [] pattern.kind = "Struct" ->
                   pattern_vars_loop(
                       rest \o [i \in 1..Len(pattern.pids) |->
                                   [pattern |-> pattern.pids[i].pattern, is_mut |-> is_mut]],
                       found \o [i \in 1..Len(pattern.pids) |->
                                   [id |-> pattern.pids[i].id, is_mut |-> FALSE]])

RECURSIVE pattern_vars_depth_first(_)
\* the identifiers a pattern binds in textual order, depth first: each
\* sub-pattern's identifiers before the next sub-pattern's
pattern_vars_depth_first(pattern) ==
    LET Flat(patterns) ==
            LET F[k \in 0..Len(patterns)] ==
                    IF k = 0 THEN <<>>
                    ELSE F[k - 1] \o pattern_vars_depth_first(patterns[k])
            IN F[Len(patterns)]
    IN CASE pattern.kind = "Identifier" -> <<[id |-> pattern.id, is_mut |-> FALSE]>>
         [] pattern.kind = "Mutable" ->
              [i \in 1..Len(pattern_vars_depth_first(pattern.pattern)) |->
                  [pattern_vars_depth_first(pattern.pattern)[i] EXCEPT !.is_mut = TRUE]]
         [] pattern.kind = "Tuple" -> Flat(pattern.patterns)
         [] pattern.kind = "Struct" ->
              Flat([i \in 1..Len(pattern.pids) |-> pattern.pids[i].pattern])

pattern_vars(pattern) ==
    pattern_vars_loop(<<[pattern |-> pattern, is_mut |-> FALSE]>>, <<>>)

ident(s) == s

id_expr(id) == Variable(id)

int_expr(x) == Integer(x)

wrap_assign_var(var_id, expr) ==
    Semi(CallE(Variable(ident("__debug_var_assign")), <<int_expr(var_id), expr>>))

\* __debug_Vec::from_slice(slice_expr)
vec_from_slice(slice_expr) == CallE(Variable(ident("__debug_Vec::from_slice")), <<slice_expr>>)

\* the UTF-8 bytes of the field names the modules use
as_bytes(name) ==
    CASE name = "a" -> <<97>>
      [] name = "b" -> <<98>>
      [] OTHER -> <<>>

byte_array_expr(bytes) ==
    vec_from_slice(ArrayLiteral([i \in 1..Len(bytes) |-> int_expr(bytes[i])]))

\* __debug_member_assign_placeholder(var_id, indexes, field_names, expr); the
\* indexes are passed in the order they were pushed
wrap_assign_member(var_id, indexes, fields, expr) ==
    LET index_expr == ArrayLiteral(indexes)
        field_name_expr ==
            ArrayLiteral([i \in 1..Len(fields) |->
                             TupleE(<<int_expr(fields[i].index),
                                      byte_array_expr(as_bytes(fields[i].name))>>)])
    IN Semi(CallE(Variable(ident("__debug_member_assign_placeholder")),
                  <<int_expr(var_id), vec_from_slice(index_expr),
                    vec_from_slice(field_name_expr), expr>>))

wrap_drop_var(var_id) ==
    Semi(CallE(Variable(ident("__debug_var_drop")), <<int_expr(var_id)>>))

RECURSIVE InOrder(_, _)
\* the var_ids of a popped scope in the order its hash map iterates
InOrder(ids, descending) ==
    IF ids = {} THEN <<>>
    ELSE LET next == IF descending
                     THEN CHOOSE id \in ids : \A other \in ids : other <= id
                     ELSE CHOOSE id \in ids : \A other \in ids : id <= other
         IN <<next>> \o InOrder(ids \ {next}, descending)

wrap_let_statement(state, let_stmt) ==
    LET Wrapped(pvars) ==
            LET vars_pattern ==
                    [i \in 1..Len(pvars) |->
                        IF pvars[i].is_mut THEN PMutable(PIdentifier(pvars[i].id))
                        ELSE PIdentifier(pvars[i].id)]
                vars_exprs == [i \in 1..Len(pvars) |-> id_expr(pvars[i].id)]
                Built(inserted) ==
                    [state |-> inserted.state,
                     stmt |-> Let(PTuple(vars_pattern),
                                  Block(<<Let(let_stmt.pattern, let_stmt.expression)>>
                                        \o [i \in 1..Len(pvars) |->
                                               wrap_assign_var(inserted.var_ids[i],
                                                               id_expr(pvars[i].id))]
                                        \o <<Expression(TupleE(vars_exprs))>>))]
            IN Built(insert_vars(state, [i \in 1..Len(pvars) |-> pvars[i].id]))
    IN Wrapped(pattern_vars(let_stmt.pattern))

RECURSIVE lvalue_cursor(_, _, _, _)
\* the loop of wrap_assign_statement: the cursor starts at the whole lvalue and
\* moves to the object or the array of each access until it is at the
\* identifier; every access pushes one index, a field access the index 0 and
\* the pair (its position in indexes, the field name).  A dereference is
\* unimplemented!(), and the lookup of the identifier is expect()ed.
lvalue_cursor(state, cursor, indexes, fields) ==
    CASE cursor.kind = "Ident" ->
           [var_id |-> lookup_var(state, cursor.id), indexes |-> indexes,
            fields |-> fields]
      [] cursor.kind = "MemberAccess" ->
           lvalue_cursor(state, cursor.object, Append(indexes, int_expr(0)),
                         Append(fields, [index |-> Len(indexes),
                                         name |-> cursor.field_name]))
      [] cursor.kind = "Index" ->
           lvalue_cursor(state, cursor.array, Append(indexes, cursor.index), fields)
      [] OTHER -> [var_id |-> NoVarId, indexes |-> indexes, fields |-> fields]

\* X = Y becomes X = { let __debug_expr = Y; __debug_var_assign(id, __debug_expr);
\* __debug_expr } when X is an identifier, and the same with
\* __debug_member_assign_placeholder(id, indexes, field_names, __debug_expr)
\* when X is a chain of accesses
wrap_assign_statement(state, assign_stmt) ==
    LET Wrapped(found) ==
            IF found.var_id = NoVarId
            THEN [state |-> [state EXCEPT !.panicked = TRUE], stmt |-> assign_stmt]
            ELSE [state |-> state,
                  stmt |-> Assign(assign_stmt.lvalue,
                                  Block(<<Let(PIdentifier(ident("__debug_expr")),
                                              assign_stmt.expression),
                                          IF assign_stmt.lvalue.kind = "Ident"
                                          THEN wrap_assign_var(
                                                   found.var_id,
                                                   id_expr(ident("__debug_expr")))
                                          ELSE wrap_assign_member(
                                                   found.var_id, found.indexes,
                                                   found.fields,
                                                   id_expr(ident("__debug_expr"))),
                                          Expression(id_expr(ident("__debug_expr")))>>))]
    IN Wrapped(lvalue_cursor(state, assign_stmt.lvalue, <<>>, <<>>))

RECURSIVE walk_scope(_, _)
RECURSIVE walk_expr(_, _)
RECURSIVE walk_exprs(_, _)
RECURSIVE walk_statement(_, _)
RECURSIVE walk_statements(_, _)

\* every expression of a list walked in order, up to a panic: [state, exprs]
walk_exprs(state, exprs) ==
    IF exprs = <<>> THEN [state |-> state, exprs |-> <<>>]
    ELSE LET Rest(first) ==
                 LET Both(others) ==
                         [state |-> others.state,
                          exprs |-> <<first.expr>> \o others.exprs]
                 IN IF first.state.panicked
                    THEN [state |-> first.state, exprs |-> exprs]
                    ELSE Both(walk_exprs(first.state, Tail(exprs)))
         IN Rest(walk_expr(state, Head(exprs)))

\* [state, expr]
walk_expr(state, expr) ==
    LET InBlock(walked) == [state |-> walked.state, expr |-> Block(walked.statements)]
        Rebuilt(walked) ==
            [state |-> walked.state,
             expr |-> CASE expr.kind = "Infix" -> Infix(walked.exprs[1], walked.exprs[2])
                        [] expr.kind = "Tuple" -> TupleE(walked.exprs)
                        [] expr.kind = "Constructor" ->
                             Constructor([i \in 1..Len(expr.fields) |->
                                 [expr.fields[i] EXCEPT !.expr = walked.exprs[i]]])
                        [] expr.kind = "Call" ->
                             CallE(Head(walked.exprs), Tail(walked.exprs))
                        [] expr.kind = "If" ->
                             If(walked.exprs[1], walked.exprs[2],
                                IF expr.alternative = NoElse THEN NoElse
                                ELSE walked.exprs[3])
                        [] expr.kind = "Lambda" ->
                             Lambda(expr.parameters, walked.exprs[1])]
    IN CASE expr.kind = "Block" ->
              InBlock(walk_scope([state EXCEPT !.scope = Append(@, NoScope)],
                                 expr.statements))
         [] expr.kind \in {"Infix", "Tuple", "Constructor", "Call", "If", "Lambda"} ->
              Rebuilt(walk_exprs(state,
                  CASE expr.kind = "Infix" -> <<expr.lhs, expr.rhs>>
                    [] expr.kind = "Tuple" -> expr.exprs
                    [] expr.kind = "Constructor" ->
                         [i \in 1..Len(expr.fields) |-> expr.fields[i].expr]
                    [] expr.kind = "Call" -> <<expr.func>> \o expr.arguments
                    [] expr.kind = "If" ->
                         <<expr.condition, expr.consequence>>
                         \o (IF expr.alternative = NoElse THEN <<>>
                             ELSE <<expr.alternative>>)
                    [] expr.kind = "Lambda" -> <<expr.body>>))
         [] OTHER -> [state |-> state, expr |-> expr]

\* the loop variable is inserted into the scope the for statement stands in
walk_for(state, for_stmt) ==
    LET Looped(inserted) ==
            LET set_stmt == wrap_assign_var(inserted.var_id, id_expr(for_stmt.identifier))
                drop_stmt == wrap_drop_var(inserted.var_id)
                Rebuilt(walked) ==
                    [state |-> walked.state,
                     stmt |-> [for_stmt EXCEPT
                                  !.block = Block(<<set_stmt, Semi(walked.expr),
                                                    drop_stmt>>)]]
            IN Rebuilt(walk_expr(inserted.state, for_stmt.block))
    IN Looped(insert_var(state, for_stmt.identifier))

\* [state, stmt]
walk_statement(state, stmt) ==
    LET Rebuilt(walked) ==
            [state |-> walked.state,
             stmt |-> IF stmt.kind = "Semi" THEN Semi(walked.expr)
                      ELSE Expression(walked.expr)]
    IN CASE stmt.kind = "Let" -> wrap_let_statement(state, stmt)
         [] stmt.kind = "Assign" -> wrap_assign_statement(state, stmt)
         [] stmt.kind \in {"Expression", "Semi"} -> Rebuilt(walk_expr(state, stmt.expr))
         [] stmt.kind = "For" -> walk_for(state, stmt)
         [] OTHER -> [state |-> state, stmt |-> stmt]

\* statements.iter_mut().for_each(walk_statement), up to a panic:
\* [state, statements]
walk_statements(state, statements) ==
    IF statements = <<>> THEN [state |-> state, statements |-> <<>>]
    ELSE LET Rest(first) ==
                 LET Both(others) ==
                         [state |-> others.state,
                          statements |-> <<first.stmt>> \o others.statements]
                 IN IF first.state.panicked
                    THEN [state |-> first.state, statements |-> statements]
                    ELSE Both(walk_statements(first.state, Tail(statements)))
         IN Rest(walk_statement(state, Head(statements)))

\* Walks the statements, then rebuilds them as: the body without its last
\* statement; the last statement, bound to __debug_expr when it is an
\* expression; a drop for every entry of the scope popped here; and
\* __debug_expr (or unit) as the value.  Consumes one scope level.
walk_scope(state, statements) ==
    LET Rebuilt(walked, n, scopes) ==
            LET Closed(ret_stmt, fn_body, popped) ==
                    LET Dropping(ids) ==
                            [state |-> [walked.state EXCEPT
                                           !.scope = SubSeq(scopes, 1, Len(scopes) - 1)],
                             statements |->
                                 fn_body
                                 \o <<IF ret_stmt.kind = "Expression"
                                      THEN Let(PIdentifier(ident("__debug_expr")),
                                               ret_stmt.expr)
                                      ELSE ret_stmt>>
                                 \o [i \in 1..Len(ids) |-> wrap_drop_var(ids[i])]
                                 \o <<IF ret_stmt.kind = "Expression"
                                      THEN Expression(id_expr(ident("__debug_expr")))
                                      ELSE Expression(UnitLiteral)>>]
                    IN Dropping(InOrder({popped[name] : name \in DOMAIN popped},
                                        walked.state.descending))
            IN Closed(IF n = 0 THEN Expression(UnitLiteral) ELSE walked.statements[n],
                      IF n = 0 THEN <<>> ELSE SubSeq(walked.statements, 1, n - 1),
                      IF scopes = <<>> THEN NoScope ELSE scopes[Len(scopes)])
        Walked(walked) == Rebuilt(walked, Len(walked.statements), walked.state.scope)
    IN Walked(walk_statements(state, statements))

RECURSIVE params_vars(_)
\* flat_map of pattern_vars over the parameters
params_vars(parameters) ==
    IF parameters = <<>> THEN <<>>
    ELSE pattern_vars(Head(parameters)) \o params_vars(Tail(parameters))

\* a mutation of walk_fn: the scope of the function is not pushed
walk_fn_without_scope(state, f) ==
    LET WithParams(pvars) ==
            LET Inserted(inserted) ==
                    LET set_fn_params ==
                            [i \in 1..Len(pvars) |->
                                wrap_assign_var(inserted.var_ids[i], id_expr(pvars[i].id))]
                        Rebuilt(walked) ==
                            [state |-> walked.state,
                             f |-> FunctionDefinition(f.parameters,
                                       set_fn_params \o walked.statements)]
                    IN Rebuilt(walk_scope(inserted.state, f.body))
            IN Inserted(insert_vars(state, [i \in 1..Len(pvars) |-> pvars[i].id]))
    IN WithParams(params_vars(f.parameters))

\* [state, f]
walk_fn(state, f) ==
    LET WithParams(pvars) ==
            LET Inserted(inserted) ==
                    LET set_fn_params ==
                            [i \in 1..Len(pvars) |->
                                wrap_assign_var(inserted.var_ids[i], id_expr(pvars[i].id))]
                        Rebuilt(walked) ==
                            [state |-> walked.state,
                             f |-> FunctionDefinition(f.parameters,
                                       set_fn_params \o walked.statements)]
                    IN Rebuilt(walk_scope(inserted.state, f.body))
            IN Inserted(insert_vars([state EXCEPT !.scope = Append(@, NoScope)],
                                    [i \in 1..Len(pvars) |-> pvars[i].id]))
    IN WithParams(params_vars(f.parameters))

\* an item of a module that is not a function
UseItem(path) == [use |-> path]

\* a function the oracle source declares; user functions are not looked up by
\* name and carry none
OracleFunction(name, parameters, body) ==
    ("name" :> name) @@ FunctionDefinition(parameters, body)

\* fn name(var_id, ..) { callee(var_id, ..); }
Forwarding(name, callee, params) ==
    OracleFunction(name, [i \in 1..Len(params) |-> PIdentifier(params[i])],
        <<Semi(CallE(Variable(callee), [i \in 1..Len(params) |-> Variable(params[i])]))>>)

\* fn name(_var_id, ..) {}
Declared(name, params) ==
    OracleFunction(name, [i \in 1..Len(params) |-> PIdentifier(params[i])], <<>>)

\* the items of the source text insert_state_set_oracle parses
OracleItems ==
    <<Declared("__debug_var_assign_oracle", <<"_var_id", "_value">>),
      Forwarding("__debug_var_assign_inner", "__debug_var_assign_oracle",
                 <<"var_id", "value">>),
      Forwarding("__debug_var_assign", "__debug_var_assign_inner", <<"var_id", "value">>),
      Declared("__debug_var_drop_oracle", <<"_var_id">>),
      Forwarding("__debug_var_drop_inner", "__debug_var_drop_oracle", <<"var_id">>),
      Forwarding("__debug_var_drop", "__debug_var_drop_inner", <<"var_id">>),
      UseItem("dep::std::collections::vec::Vec"),
      Declared("__debug_member_assign_oracle", <<"_var_id", "_indexes", "_value">>),
      Forwarding("__debug_member_assign_inner", "__debug_member_assign_oracle",
                 <<"var_id", "indexes", "value">>),
      Forwarding("__debug_member_assign", "__debug_member_assign_inner",
                 <<"var_id", "indexes", "value">>),
      Declared("__debug_member_assign_placeholder",
               <<"_var_id", "_indexes", "_field_names", "_value">>),
      Declared("__debug_dereference_assign_oracle", <<"_var_id", "_value">>),
      Forwarding("__debug_dereference_assign_inner", "__debug_dereference_assign_oracle",
                 <<"var_id", "value">>),
      Forwarding("__debug_dereference_assign", "__debug_dereference_assign_inner",
                 <<"var_id", "value">>)>>

\* module.items.extend(program.items)
insert_state_set_oracle(items) == items \o OracleItems

RECURSIVE walk_items(_, _)
\* walk_fn over the functions among the items in order, up to a panic:
\* [state, items]
walk_items(state, items) ==
    IF items = <<>> THEN [state |-> state, items |-> <<>>]
    ELSE LET Rest(first) ==
                 LET Both(others) ==
                         [state |-> others.state, items |-> <<first.f>> \o others.items]
                 IN IF first.state.panicked THEN [state |-> first.state, items |-> items]
                    ELSE Both(walk_items(first.state, Tail(items)))
         IN Rest(IF "body" \in DOMAIN Head(items) THEN walk_fn(state, Head(items))
                 ELSE [state |-> state, f |-> Head(items)])

\* the shortcut a mutation of insert_symbols takes: the oracle declarations
\* join the module before its items are walked
insert_symbols_oracles_first(state, items) ==
    IF ~state.enabled THEN [state |-> state, items |-> items]
    ELSE walk_items(state, insert_state_set_oracle(items))

\* [state, items]: nothing when disabled; else every function walked and then
\* the oracle declarations appended (a panic in the walk ends the compilation
\* before that)
insert_symbols(state, items) ==
    LET Walked(walked) ==
            IF walked.state.panicked THEN walked
            ELSE [state |-> walked.state, items |-> insert_state_set_oracle(walked.items)]
    IN IF ~state.enabled THEN [state |-> state, items |-> items]
       ELSE Walked(walk_items(state, items))

(***************************************************************************)
(* What the statements of the tree do when the program runs: the values    *)
(* bound and returned, and the calls made to the debug oracles.            *)
(***************************************************************************)
UnitV == VecV(<<>>)

\* a program the compiler rejects (a name that is not bound, a pattern that
\* does not fit its value) has no run
Rejected == [ok |-> FALSE, env |-> <<>>, value |-> UnitV, trace |-> <<>>]

Evaluated(env, value, trace) == [ok |-> TRUE, env |-> env, value |-> value, trace |-> trace]

RECURSIVE bind(_, _)
RECURSIVE bind_each(_, _)

\* [ok, map]: the identifiers the patterns bind, a later one of the same name
\* shadowing an earlier one
bind_each(patterns, values) ==
    IF patterns = <<>> THEN [ok |-> TRUE, map |-> NoScope]
    ELSE LET Both(first, others) ==
                 [ok |-> first.ok /\ others.ok, map |-> others.map @@ first.map]
         IN Both(bind(Head(patterns), Head(values)),
                 bind_each(Tail(patterns), Tail(values)))

bind(pattern, value) ==
    CASE pattern.kind = "Identifier" -> [ok |-> TRUE, map |-> (pattern.id :> value)]
      [] pattern.kind = "Mutable" -> bind(pattern.pattern, value)
      [] pattern.kind = "Tuple" ->
           IF value.kind = "Vec" /\ Len(value.items) = Len(pattern.patterns)
           THEN bind_each(pattern.patterns, value.items)
           ELSE [ok |-> FALSE, map |-> NoScope]
      [] pattern.kind = "Struct" ->
           IF /\ value.kind = "Struct"
              /\ \A i \in 1..Len(pattern.pids) : pattern.pids[i].id \in DOMAIN value.map
           THEN bind_each([i \in 1..Len(pattern.pids) |-> pattern.pids[i].pattern],
                          [i \in 1..Len(pattern.pids) |-> value.map[pattern.pids[i].id]])
           ELSE [ok |-> FALSE, map |-> NoScope]

RECURSIVE Innermost(_, _, _)
\* the innermost scope of env that binds the name, 0 when none does
Innermost(env, k, name) ==
    IF k = 0 THEN 0
    ELSE IF name \in DOMAIN env[k] THEN k ELSE Innermost(env, k - 1, name)

\* the accesses of an lvalue from the root identifier to the place written:
\* [root, path], a step of the path being a field name or the expression of
\* an index
Root(lvalue) ==
    LET RECURSIVE Down(_)
        Down(cursor) == IF cursor.kind = "Ident" THEN cursor.id
                        ELSE IF cursor.kind = "MemberAccess" THEN Down(cursor.object)
                        ELSE Down(cursor.array)
    IN Down(lvalue)

RECURSIVE AccessPath(_)
AccessPath(lvalue) ==
    CASE lvalue.kind = "Ident" -> <<>>
      [] lvalue.kind = "MemberAccess" ->
           Append(AccessPath(lvalue.object), [kind |-> "field", name |-> lvalue.field_name])
      [] lvalue.kind = "Index" ->
           Append(AccessPath(lvalue.array), [kind |-> "index", index |-> lvalue.index])

RECURSIVE write_at(_, _, _)
\* [ok, value]: the value with the place at the end of the path replaced; the
\* indexes of the path are integer literals
write_at(value, path, new) ==
    IF path = <<>> THEN [ok |-> TRUE, value |-> new]
    ELSE LET step == Head(path)
             In(inner, put(_)) == IF inner.ok THEN [ok |-> TRUE, value |-> put(inner.value)]
                               ELSE [ok |-> FALSE, value |-> value]
             IntoField(v) == StructV([value.map EXCEPT ![step.name] = v])
             IntoItem(v) == VecV([value.items EXCEPT ![step.index.value + 1] = v])
         IN CASE step.kind = "field" /\ value.kind = "Struct"
                 /\ step.name \in DOMAIN value.map ->
                   In(write_at(value.map[step.name], Tail(path), new), IntoField)
              [] step.kind = "index" /\ value.kind = "Vec"
                 /\ step.index.kind = "Integer"
                 /\ step.index.value < Len(value.items) ->
                   In(write_at(value.items[step.index.value + 1], Tail(path), new),
                      IntoItem)
              [] OTHER -> [ok |-> FALSE, value |-> value]

RECURSIVE eval_expr(_, _)
RECURSIVE eval_exprs(_, _)
RECURSIVE exec_stmt(_, _)
RECURSIVE exec_stmts(_, _)
RECURSIVE exec_for(_, _, _)

\* the expressions evaluated left to right; value is the list of their values
eval_exprs(env, exprs) ==
    IF exprs = <<>> THEN Evaluated(env, VecV(<<>>), <<>>)
    ELSE LET Rest(first) ==
                 LET Both(others) ==
                         IF ~others.ok THEN Rejected
                         ELSE Evaluated(others.env,
                                        VecV(<<first.value>> \o others.value.items),
                                        first.trace \o others.trace)
                 IN IF ~first.ok THEN Rejected
                    ELSE Both(eval_exprs(first.env, Tail(exprs)))
         IN Rest(eval_expr(env, Head(exprs)))

eval_expr(env, expr) ==
    CASE expr.kind = "Integer" -> Evaluated(env, FieldV(expr.value), <<>>)
      [] expr.kind = "Unit" -> Evaluated(env, UnitV, <<>>)
      [] expr.kind = "Variable" ->
           LET Found(k) ==
                   IF k = 0 THEN Rejected ELSE Evaluated(env, env[k][expr.name], <<>>)
           IN Found(Innermost(env, Len(env), expr.name))
      [] expr.kind = "Infix" ->
           LET Sum(both) ==
                   IF both.ok /\ both.value.items[1].kind = "Field"
                              /\ both.value.items[2].kind = "Field"
                   THEN Evaluated(both.env,
                                  FieldV(both.value.items[1].f + both.value.items[2].f),
                                  both.trace)
                   ELSE Rejected
           IN Sum(eval_exprs(env, <<expr.lhs, expr.rhs>>))
      [] expr.kind \in {"Tuple", "Array"} -> eval_exprs(env, expr.exprs)
      [] expr.kind = "Constructor" ->
           LET at(name) == CHOOSE i \in 1..Len(expr.fields) : expr.fields[i].id = name
               Built(all) ==
                   IF ~all.ok THEN Rejected
                   ELSE Evaluated(all.env,
                                  StructV([name \in {expr.fields[i].id :
                                                        i \in 1..Len(expr.fields)} |->
                                              all.value.items[at(name)]]),
                                  all.trace)
           IN Built(eval_exprs(env, [i \in 1..Len(expr.fields) |-> expr.fields[i].expr]))
      [] expr.kind = "If" ->
           LET Chosen(c) ==
                   IF ~c.ok \/ c.value.kind # "Field" THEN Rejected
                   ELSE LET Then(branch) ==
                                IF ~branch.ok THEN Rejected
                                ELSE Evaluated(branch.env, branch.value,
                                               c.trace \o branch.trace)
                        IN IF c.value.f # 0 THEN Then(eval_expr(c.env, expr.consequence))
                           ELSE IF expr.alternative = NoElse
                           THEN Evaluated(c.env, UnitV, c.trace)
                           ELSE Then(eval_expr(c.env, expr.alternative))
           IN Chosen(eval_expr(env, expr.condition))
      [] expr.kind = "Lambda" -> Evaluated(env, OtherV, <<>>)
      [] expr.kind = "Block" ->
           LET Left(done) ==
                   IF ~done.ok THEN Rejected
                   ELSE Evaluated(SubSeq(done.env, 1, Len(done.env) - 1),
                                  done.value, done.trace)
           IN Left(exec_stmts(Append(env, NoScope), expr.statements))
      [] expr.kind = "Call" ->
           LET Oracle(args) ==
                   IF ~args.ok \/ expr.func.kind # "Variable" THEN Rejected
                   ELSE CASE expr.func.name = "__debug_var_assign"
                             /\ Len(expr.arguments) = 2 ->
                               Evaluated(args.env, UnitV,
                                         Append(args.trace,
                                                [op |-> "assign",
                                                 var_id |-> args.value.items[1].f,
                                                 value |-> args.value.items[2]]))
                          [] expr.func.name = "__debug_var_drop"
                             /\ Len(expr.arguments) = 1 ->
                               Evaluated(args.env, UnitV,
                                         Append(args.trace,
                                                [op |-> "drop",
                                                 var_id |-> args.value.items[1].f,
                                                 value |-> UnitV]))
                          [] expr.func.name = "__debug_member_assign_placeholder"
                             /\ Len(expr.arguments) = 4 ->
                               Evaluated(args.env, UnitV,
                                         Append(args.trace,
                                                [op |-> "member_assign",
                                                 var_id |-> args.value.items[1].f,
                                                 indexes |-> args.value.items[2].items,
                                                 fields |-> args.value.items[3].items,
                                                 value |-> args.value.items[4]]))
                          [] expr.func.name = "__debug_Vec::from_slice"
                             /\ Len(expr.arguments) = 1 ->
                               Evaluated(args.env, args.value.items[1], args.trace)
                          [] OTHER -> Rejected
           IN Oracle(eval_exprs(env, expr.arguments))

\* the iterations from..end-1 of a for loop, each in a scope of its own that
\* binds the loop variable
exec_for(env, for_stmt, from) ==
    IF from >= for_stmt.end THEN Evaluated(env, UnitV, <<>>)
    ELSE LET Rest(once) ==
                 LET Both(others) ==
                         IF ~others.ok THEN Rejected
                         ELSE Evaluated(others.env, UnitV, once.trace \o others.trace)
                 IN IF ~once.ok THEN Rejected
                    ELSE Both(exec_for(SubSeq(once.env, 1, Len(once.env) - 1),
                                       for_stmt, from + 1))
         IN Rest(eval_expr(Append(env, (for_stmt.identifier :> FieldV(from))),
                           for_stmt.block))

exec_stmt(env, stmt) ==
    CASE stmt.kind = "Let" ->
           LET Bound(e, bound) ==
                   IF bound.ok
                   THEN Evaluated([e.env EXCEPT ![Len(e.env)] = bound.map @@ @],
                                  UnitV, e.trace)
                   ELSE Rejected
               Valued(e) == IF e.ok THEN Bound(e, bind(stmt.pattern, e.value))
                            ELSE Rejected
           IN Valued(eval_expr(env, stmt.expression))
      [] stmt.kind = "Assign" ->
           LET root == Root(stmt.lvalue)
               Written(e, k, w) ==
                   IF w.ok THEN Evaluated([e.env EXCEPT ![k][root] = w.value],
                                          UnitV, e.trace)
                   ELSE Rejected
               Stored(e, k) ==
                   IF k # 0
                   THEN Written(e, k, write_at(e.env[k][root], AccessPath(stmt.lvalue),
                                               e.value))
                   ELSE Rejected
               Valued(e) == IF e.ok THEN Stored(e, Innermost(e.env, Len(e.env), root))
                            ELSE Rejected
           IN Valued(eval_expr(env, stmt.expression))
      [] stmt.kind = "Expression" -> eval_expr(env, stmt.expr)
      [] stmt.kind = "Semi" ->
           LET Discarded(e) == IF e.ok THEN Evaluated(e.env, UnitV, e.trace) ELSE Rejected
           IN Discarded(eval_expr(env, stmt.expr))
      [] stmt.kind = "For" -> exec_for(env, stmt, stmt.start)

\* the statements in order; the value is the value of the last one
exec_stmts(env, stmts) ==
    IF stmts = <<>> THEN Evaluated(env, UnitV, <<>>)
    ELSE LET Rest(first) ==
                 LET Both(others) ==
                         IF ~others.ok THEN Rejected
                         ELSE Evaluated(others.env, others.value,
                                        first.trace \o others.trace)
                 IN IF ~first.ok THEN Rejected
                    ELSE IF Len(stmts) = 1 THEN first
                         ELSE Both(exec_stmts(first.env, Tail(stmts)))
         IN Rest(exec_stmt(env, Head(stmts)))

\* the function called on the arguments: its value and the oracle calls made
call_fn(f, args) ==
    IF Len(args) # Len(f.parameters) THEN Rejected
    ELSE LET Entered(params) ==
                 IF ~params.ok THEN Rejected ELSE exec_stmts(<<params.map>>, f.body)
         IN Entered(bind_each(f.parameters, args))

(***************************************************************************)
(* The modules instrumented and the arguments their functions are run on.  *)
(***************************************************************************)
\* fn(x) { let y = x + 1; y }
FnLet ==
    FunctionDefinition(<<PIdentifier("x")>>,
        <<Let(PIdentifier("y"), Infix(Variable("x"), Integer(1))),
          Expression(Variable("y"))>>)

\* fn(x) { let a = 1; let a = a + x; a }
FnShadow ==
    FunctionDefinition(<<PIdentifier("x")>>,
        <<Let(PIdentifier("a"), Integer(1)),
          Let(PIdentifier("a"), Infix(Variable("a"), Variable("x"))),
          Expression(Variable("a"))>>)

\* fn(x) { let ((a, mut b), c) = ((x, 2), 3); b = b + c; (a, b) }
FnNested ==
    FunctionDefinition(<<PIdentifier("x")>>,
        <<Let(PTuple(<<PTuple(<<PIdentifier("a"), PMutable(PIdentifier("b"))>>),
                       PIdentifier("c")>>),
              TupleE(<<TupleE(<<Variable("x"), Integer(2)>>), Integer(3)>>)),
          Assign(LIdent("b"), Infix(Variable("b"), Variable("c"))),
          Expression(TupleE(<<Variable("a"), Variable("b")>>))>>)

\* fn(n) { let mut s = n; for i in 0..2 { s = s + i; }; s }
FnLoop ==
    FunctionDefinition(<<PIdentifier("n")>>,
        <<Let(PMutable(PIdentifier("s")), Variable("n")),
          For("i", 0, 2, Block(<<Assign(LIdent("s"), Infix(Variable("s"), Variable("i")))>>)),
          Expression(Variable("s"))>>)

\* fn() { let mut i = 5; for i in 0..2 { }; i = 7; i }
FnLoopShadow ==
    FunctionDefinition(<<>>,
        <<Let(PMutable(PIdentifier("i")), Integer(5)),
          For("i", 0, 2, Block(<<>>)),
          Assign(LIdent("i"), Integer(7)),
          Expression(Variable("i"))>>)

\* fn(x) { let S { a: u, b } = S { a: x, b: 2 }; u + b }
FnStruct ==
    FunctionDefinition(<<PIdentifier("x")>>,
        <<Let(PStruct(<<[id |-> "a", pattern |-> PIdentifier("u")],
                        [id |-> "b", pattern |-> PIdentifier("b")]>>),
              Constructor(<<[id |-> "a", expr |-> Variable("x")],
                            [id |-> "b", expr |-> Integer(2)]>>)),
          Expression(Infix(Variable("u"), Variable("b")))>>)

\* fn(S { a }) { a }
FnStructParam ==
    FunctionDefinition(<<PStruct(<<[id |-> "a", pattern |-> PIdentifier("a")]>>)>>,
        <<Expression(Variable("a"))>>)

\* fn((a, b), c) { { let d = a + c; d + b }; { let e = b; e + c } }
FnBlock ==
    FunctionDefinition(<<PTuple(<<PIdentifier("a"), PIdentifier("b")>>), PIdentifier("c")>>,
        <<Semi(Block(<<Let(PIdentifier("d"), Infix(Variable("a"), Variable("c"))),
                       Expression(Infix(Variable("d"), Variable("b")))>>)),
          Expression(Block(<<Let(PIdentifier("e"), Variable("b")),
                             Expression(Infix(Variable("e"), Variable("c")))>>))>>)

\* fn() { }
FnEmpty == FunctionDefinition(<<>>, <<>>)

\* fn(x) { for i in 0..2 { if i { let b = i; { let c = b; c } }
\*                         else { let d = 3; |y| { let e = y; e }; 0 }; }; x }
FnDeep ==
    FunctionDefinition(<<PIdentifier("x")>>,
        <<For("i", 0, 2,
              Block(<<Semi(If(Variable("i"),
                              Block(<<Let(PIdentifier("b"), Variable("i")),
                                      Expression(Block(<<Let(PIdentifier("c"),
                                                             Variable("b")),
                                                         Expression(Variable("c"))>>))>>),
                              Block(<<Let(PIdentifier("d"), Integer(3)),
                                      Semi(Lambda(<<PIdentifier("y")>>,
                                                  Block(<<Let(PIdentifier("e"),
                                                              Variable("y")),
                                                          Expression(Variable("e"))>>))),
                                      Expression(Integer(0))>>)))>>)),
          Expression(Variable("x"))>>)

\* fn(x) { let mut v = S { a: [x, 2], b: 3 }; v.a[1] = 7; v }
FnMember ==
    FunctionDefinition(<<PIdentifier("x")>>,
        <<Let(PMutable(PIdentifier("v")),
              Constructor(<<[id |-> "a",
                             expr |-> ArrayLiteral(<<Variable("x"), Integer(2)>>)],
                            [id |-> "b", expr |-> Integer(3)]>>)),
          Assign(LIndex(MemberAccess(LIdent("v"), "a"), Integer(1)), Integer(7)),
          Expression(Variable("v"))>>)

\* fn(x) { let mut v = S { a: x, b: 3 }; v.b = x; v }
FnField ==
    FunctionDefinition(<<PIdentifier("x")>>,
        <<Let(PMutable(PIdentifier("v")),
              Constructor(<<[id |-> "a", expr |-> Variable("x")],
                            [id |-> "b", expr |-> Integer(3)]>>)),
          Assign(MemberAccess(LIdent("v"), "b"), Variable("x")),
          Expression(Variable("v"))>>)

\* fn(x) { let mut t = [x, 2]; let mut t = [3, 4]; t[1] = x; t }
FnIndex ==
    FunctionDefinition(<<PIdentifier("x")>>,
        <<Let(PMutable(PIdentifier("t")), ArrayLiteral(<<Variable("x"), Integer(2)>>)),
          Let(PMutable(PIdentifier("t")), ArrayLiteral(<<Integer(3), Integer(4)>>)),
          Assign(LIndex(LIdent("t"), Integer(1)), Variable("x")),
          Expression(Variable("t"))>>)

Modules ==
    {<<FnLet>>, <<FnShadow>>, <<FnNested>>, <<FnLoop>>, <<FnLoopShadow>>, <<FnStruct>>,
     <<FnStructParam>>, <<FnBlock>>, <<FnEmpty>>, <<FnLet, FnLoop>>, <<FnBlock, FnNested>>,
     <<FnMember>>, <<FnField>>, <<FnIndex>>, <<FnDeep>>}

ArgLists ==
    {<<>>, <<FieldV(1)>>, <<FieldV(4)>>, <<StructV("a" :> FieldV(6))>>,
     <<VecV(<<FieldV(1), FieldV(2)>>), FieldV(3)>>}

NoRun == [ok |-> FALSE, env |-> <<>>, value |-> UnitV, trace |-> <<>>]

\* module: the parsed functions; state, items: the DebugState and the functions
\* after insert_symbols; again: the same of a second compilation of the module;
\* fn, args, original, instrumented: the function run, its arguments and the two
\* runs
NoInst ==
    [phase |-> "none", module |-> <<>>, state |-> DebugStateDefault(FALSE), items |-> <<>>,
     again |-> [state |-> DebugStateDefault(FALSE), items |-> <<>>],
     fn |-> 0, args |-> <<>>, original |-> NoRun, instrumented |-> NoRun]

InstInit ==
    inst \in IF frontend = "instrument"
             THEN {[NoInst EXCEPT !.phase = "parsed", !.module = module] :
                       module \in Modules}
             ELSE {NoInst}

\* DebugState::insert_symbols on the parsed module, with a fresh state
InstInsertSymbols ==
    /\ frontend = "instrument"
    /\ inst.phase = "parsed"
    /\ \E descending \in BOOLEAN, enabled \in BOOLEAN :
           LET Done(done) == [inst EXCEPT !.phase = IF enabled THEN "instrumented"
                                                    ELSE "disabled",
                                          !.state = done.state, !.items = done.items]
           IN inst' = Done(insert_symbols(
                               [DebugStateDefault(descending) EXCEPT !.enabled = enabled],
                               inst.module))
    /\ UNCHANGED notInst

\* the same source compiled once more: insert_symbols from a fresh state
InstInsertSymbolsAgain ==
    /\ frontend = "instrument"
    /\ inst.phase = "instrumented"
    /\ \E descending \in BOOLEAN :
           LET done == insert_symbols(DebugStateDefault(descending), inst.module)
           IN inst' = [inst EXCEPT !.phase = "compiled twice", !.again = done]
    /\ UNCHANGED notInst

\* a function of the module is run on arguments it accepts, as written and as
\* instrumented
InstRun ==
    /\ frontend = "instrument"
    /\ inst.phase = "instrumented"
    /\ \E fn \in 1..Len(inst.module), args \in ArgLists :
           LET Run(original) ==
                   /\ original.ok
                   /\ inst' = [inst EXCEPT !.phase = "ran", !.fn = fn, !.args = args,
                                           !.original = original,
                                           !.instrumented = call_fn(inst.items[fn], args)]
           IN Run(call_fn(inst.module[fn], args))
    /\ UNCHANGED notInst

(***************************************************************************)
(* The debug command of the CLI: what debug_main returns for the outcome   *)
(* of the session it runs.  The session (debug_program) returns a witness  *)
(* stack, no witness stack, or an execution error; the inputs file, the    *)
(* ABI decoding and the witness file are the environment's.                *)
(***************************************************************************)
OkR(value) == [tag |-> "Ok", value |-> value]

ErrR(error) == [tag |-> "Err", error |-> error]

SolvedStack == [some |-> TRUE]

NoWitnessStack == [some |-> FALSE]

\* Result<Option<WitnessStack>, NargoError>
SessionOutcomes ==
    {OkR(SolvedStack), OkR(NoWitnessStack), ErrR("ExecutionError"), ErrR("ForeignCallError")}

\* inputs_ok: Prover.toml is read and encoded; decode_ok: the ABI decodes the
\* main witness; witness_name: whether a witness file was asked for; save_ok:
\* whether it can be written
CliEnvs ==
    [inputs_ok : BOOLEAN, decode_ok : BOOLEAN, witness_name : BOOLEAN, save_ok : BOOLEAN]

\* Result<ExecutionResult, CliError>: the outer result is the command's, the
\* inner one the execution's
debug_program_and_decode(session, env) ==
    IF ~env.inputs_ok THEN ErrR("InputsError")
    ELSE IF session.tag = "Err" THEN OkR(ErrR(session.error))
    ELSE IF ~session.value.some THEN ErrR("ExecutionHalted")
    ELSE IF ~env.decode_ok THEN ErrR("AbiError")
    ELSE OkR(OkR(session.value))

\* Result<DebugResult, CliError>
run_async(session, env) ==
    LET Decoded(debug_result) ==
            IF debug_result.tag = "Err" THEN debug_result
            ELSE IF debug_result.value.tag = "Err" THEN OkR(debug_result.value)
            ELSE IF env.witness_name /\ ~env.save_ok THEN ErrR("FilesystemError")
            ELSE OkR(OkR(debug_result.value.value))
    IN Decoded(debug_program_and_decode(session, env))

\* Result<(), CliError>: run_async(..).map(|_| ())
debug_main(session, env) ==
    LET Mapped(result) == IF result.tag = "Ok" THEN OkR("unit") ELSE result
    IN Mapped(run_async(session, env))

\* the process exits with 0 when the command returned Ok
ExitCode(result) == IF result.tag = "Ok" THEN 0 ELSE 1

NoCli == [phase |-> "none", session |-> OkR(NoWitnessStack),
          env |-> [inputs_ok |-> FALSE, decode_ok |-> FALSE,
                   witness_name |-> FALSE, save_ok |-> FALSE],
          result |-> ErrR("none")]

CliInit ==
    cli \in IF frontend = "command"
            THEN {[NoCli EXCEPT !.phase = "compiled", !.env = env] : env \in CliEnvs}
            ELSE {NoCli}

\* the debug command runs the session to its end and returns
CliDebugMain ==
    /\ frontend = "command"
    /\ cli.phase = "compiled"
    /\ \E session \in SessionOutcomes :
           cli' = [cli EXCEPT !.phase = "returned", !.session = session,
                              !.result = debug_main(session, cli.env)]
    /\ UNCHANGED <<notCli, dap, hs, dtypes>>

(***************************************************************************)
(* The DAP command before a program is loaded: loop_uninitialized_dap      *)
(* polls the requests of the client one after the other until a Launch     *)
(* succeeds, a Disconnect arrives or the input ends.  The output stream is *)
(* taken to accept every response.                                         *)
(***************************************************************************)
MaxRequests == 3

\* the arguments of a Launch: additionalData is absent, a JSON value that is
\* no object, or an object; its projectFolder is absent, no string, or a
\* string; compiles: whether load_and_compile_project succeeds
LaunchArgument(additional_data, project_folder, compiles) ==
    [additional_data |-> additional_data, project_folder |-> project_folder,
     compiles |-> compiles]

LaunchArguments ==
    {LaunchArgument("None", "None", FALSE), LaunchArgument("Array", "None", FALSE),
     LaunchArgument("Object", "None", TRUE), LaunchArgument("Object", "Number", TRUE),
     LaunchArgument("Object", "String", FALSE), LaunchArgument("Object", "String", TRUE)}

NoArguments == LaunchArgument("None", "None", FALSE)

DapRequests ==
    {[command |-> "Launch", arguments |-> arguments] : arguments \in LaunchArguments}
    \cup {[command |-> command, arguments |-> NoArguments] :
              command \in {"Initialize", "Disconnect", "Next"}}

\* the response to request seq: req.success(..), req.ack() and req.error(..)
Response(seq, success, message) ==
    [kind |-> "response", seq |-> seq, success |-> success, message |-> message]

SessionEvent(seq, what) == [kind |-> what, seq |-> seq, success |-> TRUE, message |-> ""]

\* phase: serving, session (run_dap_loop has the server), ended; requests:
\* the requests polled so far; log: the responses written and the start and
\* the return of the debug session, in order
NoDap == [phase |-> "none", requests |-> <<>>, log |-> <<>>, eof |-> FALSE]

Responded(state, rsp) == [state EXCEPT !.log = Append(@, rsp)]

\* a mutation of the Launch arm: the session is started first and the launch
\* acknowledged after
launch_acknowledged_late(state, seq, arguments) ==
    IF arguments.additional_data # "Object"
    THEN Responded(state, Response(seq, FALSE, "Missing launch arguments"))
    ELSE IF arguments.project_folder # "String"
    THEN Responded(state, Response(seq, FALSE, "Missing project folder argument"))
    ELSE IF arguments.compiles
    THEN [Responded(Responded(state, SessionEvent(seq, "session started")),
                    Response(seq, TRUE, "ack"))
          EXCEPT !.phase = "session"]
    ELSE Responded(state, Response(seq, FALSE, "Failed to compile project"))

\* the Launch arm: the two let-else checks, load_and_compile_project, and on
\* success the acknowledgement followed by run_dap_loop
launch(state, seq, arguments) ==
    IF arguments.additional_data # "Object"
    THEN Responded(state, Response(seq, FALSE, "Missing launch arguments"))
    ELSE IF arguments.project_folder # "String"
    THEN Responded(state, Response(seq, FALSE, "Missing project folder argument"))
    ELSE IF arguments.compiles
    THEN [Responded(Responded(state, Response(seq, TRUE, "ack")),
                    SessionEvent(seq, "session started"))
          EXCEPT !.phase = "session"]
    ELSE Responded(state, Response(seq, FALSE, "Failed to compile project"))

\* one turn of the loop on the request polled
loop_uninitialized_dap(state, req) ==
    LET polled == [state EXCEPT !.requests = Append(@, req)]
        seq == Len(polled.requests)
    IN CASE req.command = "Initialize" ->
              Responded(polled, Response(seq, TRUE, "capabilities"))
         [] req.command = "Launch" -> launch(polled, seq, req.arguments)
         [] req.command = "Disconnect" ->
              [Responded(polled, Response(seq, TRUE, "ack")) EXCEPT !.phase = "ended"]
         [] OTHER -> polled

DapInit ==
    dap \in IF frontend = "dap" THEN {[NoDap EXCEPT !.phase = "serving"]} ELSE {NoDap}

\* poll_request returns a request and the loop handles it
DapRequest ==
    /\ frontend = "dap"
    /\ dap.phase = "serving"
    /\ Len(dap.requests) < MaxRequests
    /\ \E req \in DapRequests : dap' = loop_uninitialized_dap(dap, req)
    /\ UNCHANGED <<notCli, cli, hs, dtypes>>

\* poll_request returns None: the client has closed the input
DapEndOfInput ==
    /\ frontend = "dap"
    /\ dap.phase = "serving"
    /\ dap' = [dap EXCEPT !.phase = "ended", !.eof = TRUE]
    /\ UNCHANGED <<notCli, cli, hs, dtypes>>

\* run_dap_loop returns, with a result or an error, and the loop is left
DapSessionReturns ==
    /\ frontend = "dap"
    /\ dap.phase = "session"
    /\ dap' = [Responded(dap, SessionEvent(Len(dap.requests), "session returned"))
               EXCEPT !.phase = "ended"]
    /\ UNCHANGED <<notCli, cli, hs, dtypes>>

(***************************************************************************)
(* The specification.                                                      *)
(***************************************************************************)
(***************************************************************************)
(* run of the REPL front-end: the REPL task and the debugger task on one   *)
(* thread, joined by two channels of capacity 1.  The REPL task sends the  *)
(* commands of the user, then Finalize, and waits for the answer; the      *)
(* debugger task serves its inbox until every sender is dropped.  What a   *)
(* stepping command does to the solver is left open here: any status may   *)
(* follow; a command that shows something leaves the status as it is.      *)
(***************************************************************************)
MaxMessages == 3

Capacity == 1

\* repl: loop, finalize (the loop has stopped), await (Finalize is sent),
\* done, panicked; debugger: recv, done; inbox, outbox: the two channels;
\* sess: the debugger's session, its witness map standing for the number of
\* commands served; sent, served: commands sent and served; finalizes: the
\* Finalize messages sent; replies: the answers sent, each with the number of
\* commands served before it; returned, result: the value of run
NoHandshake ==
    [repl |-> "none", debugger |-> "none", inbox |-> <<>>, outbox |-> <<>>,
     sess |-> [context |-> [status |-> "InProgress", wit |-> <<0>>]],
     sent |-> 0, served |-> 0, finalizes |-> 0, replies |-> <<>>,
     repl_result |-> NoMap, returned |-> FALSE, result |-> NoMap]

HsInit ==
    hs \in IF frontend = "handshake"
           THEN {[NoHandshake EXCEPT !.repl = "loop", !.debugger = "recv"]}
           ELSE {NoHandshake}

\* a command handler sends its message and waits until the inbox takes it
HsCommand ==
    /\ frontend = "handshake"
    /\ hs.repl = "loop"
    /\ hs.sent < MaxMessages
    /\ Len(hs.inbox) < Capacity
    /\ \E msg \in {"Continue", "ShowWitnessMap"} :
           hs' = [hs EXCEPT !.inbox = Append(@, msg), !.sent = @ + 1]
    /\ UNCHANGED <<notCli, cli, dap, dtypes>>

\* repl.next() returns LoopStatus::Break
HsReplStops ==
    /\ frontend = "handshake"
    /\ hs.repl = "loop"
    /\ hs' = [hs EXCEPT !.repl = "finalize"]
    /\ UNCHANGED <<notCli, cli, dap, dtypes>>

\* repl.next() returns an error: expect() panics, the task is dropped with its
\* senders and its receiver
HsReplPanics ==
    /\ frontend = "handshake"
    /\ hs.repl = "loop"
    /\ hs' = [hs EXCEPT !.repl = "panicked"]
    /\ UNCHANGED <<notCli, cli, dap, dtypes>>

\* a mutation of the send of Finalize: it does not wait for room in the inbox
\* and the message is lost when there is none
send_finalize_without_waiting(state) ==
    [state EXCEPT !.inbox = IF Len(@) < Capacity THEN Append(@, "Finalize") ELSE @,
                  !.finalizes = @ + 1, !.repl = "await"]

\* to_debugger.send(Finalize).await
send_finalize(state) ==
    IF Len(state.inbox) < Capacity
    THEN [state EXCEPT !.inbox = Append(@, "Finalize"), !.finalizes = @ + 1,
                       !.repl = "await"]
    ELSE state

HsSendFinalize ==
    /\ frontend = "handshake"
    /\ hs.repl = "finalize"
    /\ hs' = send_finalize(hs)
    /\ hs' # hs
    /\ UNCHANGED <<notCli, cli, dap, dtypes>>

\* from_debugger.recv().await: the answer, or None when the debugger has gone
\* without answering; the task returns and its senders are dropped
HsReceive ==
    /\ frontend = "handshake"
    /\ hs.repl = "await"
    /\ \/ /\ hs.outbox # <<>>
          /\ hs' = [hs EXCEPT !.repl = "done", !.repl_result = Head(hs.outbox),
                              !.outbox = Tail(@)]
       \/ /\ hs.outbox = <<>>
          /\ hs.debugger = "done"
          /\ hs' = [hs EXCEPT !.repl = "done", !.repl_result = NoMap]
    /\ UNCHANGED <<notCli, cli, dap, dtypes>>

\* debugger_inbox.recv() returns a command and its arm runs
HsServe ==
    /\ frontend = "handshake"
    /\ hs.debugger = "recv"
    /\ hs.inbox # <<>>
    /\ Head(hs.inbox) # "Finalize"
    /\ \E status \in IF Head(hs.inbox) = "Continue"
                     THEN {"InProgress", "Solved", "Failure"}
                     ELSE {hs.sess.context.status} :
           hs' = [hs EXCEPT !.inbox = Tail(@), !.served = @ + 1,
                            !.sess = [context |-> [status |-> status,
                                                   wit |-> <<hs.served + 1>>]]]
    /\ UNCHANGED <<notCli, cli, dap, dtypes>>

\* debugger_inbox.recv() returns Finalize: the answer is sent on the outbox
\* (a send to a receiver that is gone fails and the failure is ignored)
HsFinalize ==
    /\ frontend = "handshake"
    /\ hs.debugger = "recv"
    /\ hs.inbox # <<>>
    /\ Head(hs.inbox) = "Finalize"
    /\ Len(hs.outbox) < Capacity
    /\ hs' = [hs EXCEPT !.inbox = Tail(@),
                        !.outbox = IF hs.repl \in {"done", "panicked"} THEN @
                                   ELSE Append(@, repl_finalize(hs.sess)),
                        !.replies = Append(@, [reply |-> repl_finalize(hs.sess),
                                               served |-> hs.served])]
    /\ UNCHANGED <<notCli, cli, dap, dtypes>>

\* debugger_inbox.recv() returns None: the inbox is empty and every sender
\* has been dropped with the REPL task
HsDebuggerEnds ==
    /\ frontend = "handshake"
    /\ hs.debugger = "recv"
    /\ hs.inbox = <<>>
    /\ hs.repl \in {"done", "panicked"}
    /\ hs' = [hs EXCEPT !.debugger = "done"]
    /\ UNCHANGED <<notCli, cli, dap, dtypes>>

\* debugger.await.unwrap(); match repl.await { Ok(r) => Ok(r), Err(_) => Ok(None) }
HsRunReturns ==
    /\ frontend = "handshake"
    /\ ~hs.returned
    /\ hs.debugger = "done"
    /\ hs.repl \in {"done", "panicked"}
    /\ hs' = [hs EXCEPT !.returned = TRUE,
                        !.result = IF hs.repl = "done" THEN hs.repl_result ELSE NoMap]
    /\ UNCHANGED <<notCli, cli, dap, dtypes>>

(***************************************************************************)
(* DebugTypes of the monomorphizer: the table of the variables' types.     *)
(* dtypes holds its four fields; resolved (var_id => the printable type    *)
(* insert_var computed for it), inserts and panicked are history.          *)
(***************************************************************************)

\* the insert_var calls of one run
MaxInserts == 3

\* hir_def::types::Type, as much of it as resolve_type tells apart
FieldElement == [kind |-> "FieldElement"]

Bool == [kind |-> "Bool"]

IntegerType(signed, width) == [kind |-> "Integer", signed |-> signed, width |-> width]

Bound(bound_type) == [tag |-> "Bound", bound_type |-> bound_type]

Unbound == [tag |-> "Unbound"]

TypeVariable(binding) == [kind |-> "TypeVariable", binding |-> binding]

NamedGeneric(binding) == [kind |-> "NamedGeneric", binding |-> binding]

HirTypes ==
    {FieldElement, Bool, IntegerType(FALSE, 8),
     TypeVariable(Bound(FieldElement)), NamedGeneric(Bound(Bool)),
     TypeVariable(Unbound)}

\* unreachable!() on an unbound type variable
Unreachable == [kind |-> "unreachable"]

resolve_type(var_type) ==
    IF var_type.kind \in {"NamedGeneric", "TypeVariable"}
    THEN IF var_type.binding.tag = "Bound" THEN var_type.binding.bound_type
         ELSE Unreachable
    ELSE var_type

\* PrintableType::from(Type), the .into() of insert_var, on resolved types
PrintableTypeFrom(typ) ==
    CASE typ.kind = "FieldElement" -> FieldT
      [] typ.kind = "Bool" -> BooleanT
      [] typ.kind = "Integer" ->
           IF typ.signed THEN SignedT(typ.width) ELSE UnsignedT(typ.width)

\* DebugTypes::default()
DebugTypesDefault ==
    [variables |-> NoScope, types |-> NoScope, id_to_type |-> NoScope,
     next_type_id |-> 0, resolved |-> NoScope, inserts |-> 0, panicked |-> FALSE,
     got |-> None]

\* HashMap::insert
MapInsert(map, key, value) == [k \in DOMAIN map \cup {key} |-> IF k = key THEN value ELSE map[k]]

\* a mutation of DebugTypes_insert_var: every call takes a new type_id
DebugTypes_insert_var_fresh(types, var_id, var_name, var_type) ==
    LET Interned(resolved) ==
            IF resolved = Unreachable THEN [types EXCEPT !.panicked = TRUE]
            ELSE LET WithType(ptype) ==
                         LET type_id == types.next_type_id
                         IN [types EXCEPT
                                !.next_type_id = type_id + 1,
                                !.types = MapInsert(@, ptype, type_id),
                                !.id_to_type = MapInsert(@, type_id, ptype),
                                !.variables =
                                    MapInsert(@, var_id,
                                              [name |-> var_name, type_id |-> type_id]),
                                !.resolved = MapInsert(@, var_id, ptype)]
                 IN WithType(PrintableTypeFrom(resolved))
    IN Interned(resolve_type(var_type))

\* DebugTypes::insert_var
DebugTypes_insert_var(types, var_id, var_name, var_type) ==
    LET Interned(resolved) ==
            IF resolved = Unreachable THEN [types EXCEPT !.panicked = TRUE]
            ELSE LET WithType(ptype) ==
                         LET Known(known) ==
                                 LET type_id == IF known THEN types.types[ptype]
                                                ELSE types.next_type_id
                                 IN [types EXCEPT
                                        !.next_type_id = IF known THEN @ ELSE @ + 1,
                                        !.types = IF known THEN @
                                                  ELSE MapInsert(@, ptype, type_id),
                                        !.id_to_type = IF known THEN @
                                                       ELSE MapInsert(@, type_id, ptype),
                                        !.variables =
                                            MapInsert(@, var_id,
                                                      [name |-> var_name,
                                                       type_id |-> type_id]),
                                        !.resolved = MapInsert(@, var_id, ptype)]
                         IN Known(ptype \in DOMAIN types.types)
                 IN WithType(PrintableTypeFrom(resolved))
    IN Interned(resolve_type(var_type))

\* DebugTypes::get_type: Option<&PrintableType>
get_type(types, var_id) ==
    IF var_id \notin DOMAIN types.variables THEN None
    ELSE LET type_id == types.variables[var_id].type_id
         IN IF type_id \in DOMAIN types.id_to_type
            THEN [tag |-> "Some", text |-> types.id_to_type[type_id]]
            ELSE None

TypesInit == dtypes = DebugTypesDefault

TypesInsertVar ==
    /\ frontend = "types"
    /\ ~dtypes.panicked
    /\ dtypes.inserts < MaxInserts
    /\ \E var_id \in 0..2, var_type \in HirTypes :
           dtypes' = [DebugTypes_insert_var(dtypes, var_id, "v", var_type)
                         EXCEPT !.inserts = @ + 1, !.got = None]
    /\ UNCHANGED <<notCli, cli, dap, hs>>

TypesGetType ==
    /\ frontend = "types"
    /\ ~dtypes.panicked
    /\ \E var_id \in 0..2 :
           dtypes' = [dtypes EXCEPT !.got = get_type(dtypes, var_id)]
    /\ UNCHANGED <<notCli, cli, dap, hs>>

\* the state after construction, whichever front end is run
AnyInit ==
    /\ frontend \in {"repl", "protocol", "circuit", "store", "printable", "instrument",
                      "command", "dap", "handshake", "types"}
    /\ ReplInit
    /\ WorkerInit
    /\ CircuitInit
    /\ StoreInit
    /\ PrintInit
    /\ InstInit
    /\ CliInit
    /\ DapInit
    /\ HsInit
    /\ TypesInit
    /\ frontend # "circuit" => /\ acvm = ACVMNew(initial_witness)
                              /\ assert_messages = <<>>

\* the REPL session is specified on its own below (ReplSpec)
Init == AnyInit /\ frontend # "repl"

Next ==
    \/ WorkerStepping
    \/ WorkerAddBreakpoint
    \/ WorkerDeleteBreakpoint
    \/ WorkerRestart
    \/ WorkerOverwriteWitness
    \/ WorkerQuery
    \/ WorkerProbe
    \/ WorkerWriteBrilligMemory
    \/ WorkerSend
    \/ WorkerFinalize
    \/ WorkerRecvClosed
    \/ FrontSend
    \/ FrontSendRejected
    \/ FrontRecv
    \/ FrontDropSender
    \/ FrontDropReceiver
    \/ CircuitStep
    \/ CircuitCont
    \/ CircuitQuit
    \/ StoreInsertVariables
    \/ StoreInsertTypes
    \/ StorePushFn
    \/ StorePopFn
    \/ StoreAssign
    \/ StoreAssignField
    \/ StoreDrop
    \/ StoreGet
    \/ StoreAssignDeref
    \/ PrintEncode
    \/ PrintDecode
    \/ PrintFormat
    \/ InstInsertSymbols
    \/ InstInsertSymbolsAgain
    \/ InstRun
    \/ CliDebugMain
    \/ DapRequest
    \/ DapEndOfInput
    \/ DapSessionReturns
    \/ HsCommand
    \/ HsReplStops
    \/ HsReplPanics
    \/ HsSendFinalize
    \/ HsReceive
    \/ HsServe
    \/ HsFinalize
    \/ HsDebuggerEnds
    \/ HsRunReturns
    \/ TypesInsertVar
    \/ TypesGetType

Spec == Init /\ [][Next]_vars

(***************************************************************************)
(* The REPL session: the commands of the loop of run served one after the  *)
(* other on a ReplDebugger, in any order, until Finalize.                  *)
(***************************************************************************)
ReplSessionInit == AnyInit /\ frontend = "repl"

ReplSessionNext ==
    \/ ReplStepAcirOpcode
    \/ ReplStepIntoOpcode
    \/ ReplNext
    \/ ReplNextOver
    \/ ReplNextOut
    \/ ReplCont
    \/ ReplRestart
    \/ ReplBreakpointSet
    \/ ReplBreakpointDelete
    \/ ReplUpdateWitness
    \/ ReplShowWitnessMap
    \/ ReplShowWitness
    \/ ReplDisplayOpcodes
    \/ ReplShowBrilligRegisters
    \/ ReplSetBrilligRegister
    \/ ReplShowBrilligMemory
    \/ ReplWriteBrilligMemory
    \/ ReplFinalize

ReplSpec == ReplSessionInit /\ [][ReplSessionNext]_vars

(***************************************************************************)
(* The two tasks of run on their own.  The runtime (a current-thread tokio *)
(* runtime with a LocalSet) polls every task that can make progress: a     *)
(* send, a recv or a join that can return does return.  Nothing is assumed *)
(* of the user: the REPL loop may go on or stop.                           *)
(***************************************************************************)
HandshakeNext ==
    \/ HsCommand
    \/ HsReplStops
    \/ HsReplPanics
    \/ HsSendFinalize
    \/ HsReceive
    \/ HsServe
    \/ HsFinalize
    \/ HsDebuggerEnds
    \/ HsRunReturns

HandshakeInit == Init /\ frontend = "handshake"

HandshakeSpec ==
    /\ HandshakeInit
    /\ [][HandshakeNext]_vars
    /\ WF_vars(HsSendFinalize)
    /\ WF_vars(HsReceive)
    /\ WF_vars(HsServe)
    /\ WF_vars(HsFinalize)
    /\ WF_vars(HsDebuggerEnds)
    /\ WF_vars(HsRunReturns)

(***************************************************************************)
(* The protocol on its own, with the worker as a thread that runs when it  *)
(* can: a recv or a send that can return does return, and an arm that has  *)
(* been entered runs to its end.  Nothing is assumed of the front-end.     *)
(* The fairness of the arms other than Finalize is weak fairness written   *)
(* out, []<>~ENABLED <<A>>_vars \/ []<><<A>>_vars: such an arm is enabled  *)
(* exactly when ServeEnabled holds, and a step of it is a step that takes  *)
(* the worker from recv to send.                                           *)
(***************************************************************************)
WorkerNext ==
    \/ WorkerStepping
    \/ WorkerAddBreakpoint
    \/ WorkerDeleteBreakpoint
    \/ WorkerRestart
    \/ WorkerOverwriteWitness
    \/ WorkerQuery
    \/ WorkerProbe
    \/ WorkerWriteBrilligMemory
    \/ WorkerSend
    \/ WorkerFinalize
    \/ WorkerRecvClosed

ProtocolNext ==
    \/ WorkerNext
    \/ FrontSend
    \/ FrontSendRejected
    \/ FrontRecv
    \/ FrontDropSender
    \/ FrontDropReceiver

ProtocolInit == Init /\ frontend = "protocol"

ServeEnabled ==
    /\ frontend = "protocol"
    /\ wpc = "recv"
    /\ cmdQ # <<>>
    /\ Head(cmdQ).kind # "Finalize"

WorkerServed == wpc = "recv" /\ wpc' = "send"

WorkerSpec ==
    /\ ProtocolInit
    /\ [][ProtocolNext]_vars
    /\ WF_vars(WorkerSend)
    /\ WF_vars(WorkerFinalize)
    /\ WF_vars(WorkerRecvClosed)
    /\ ([]<>(~ServeEnabled) \/ []<><<WorkerServed>>_vars)

(***************************************************************************)
(* Properties.                                                             *)
(***************************************************************************)
Ids(log) == [i \in 1..Len(log) |-> log[i].id]

Consecutive(ids, first) == \A i \in 1..Len(ids) : ids[i] = first + i - 1

\* C1: the worker reads one command at a time and sends exactly one result
\* for it before it reads the next one, so the results sent are those of the
\* commands 1, 2, 3, ... in this order, none lost, repeated or out of order;
\* the results still in flight are the latest ones, in the same order.
C1_ResultsFollowCommandsInOrder ==
    frontend = "protocol" =>
      /\ Consecutive(Ids(wlog.results), 1)
      /\ wpc = "recv" /\ ~wlog.finalized => Len(wlog.results) = wlog.received
      /\ wpc = "send" => /\ Len(wlog.results) = wlog.received - 1
                         /\ pending.id = wlog.received
      /\ wpc = "done" => Len(wlog.results) \in {wlog.received - 1, wlog.received}
      /\ wpc # "done" => Consecutive(Ids(cmdQ), wlog.received + 1)
      /\ rxOpen => Consecutive(Ids(resQ), Len(wlog.results) - Len(resQ) + 1)

C1_TwoResultsInFlight ==
    /\ frontend = "protocol"
    /\ Len(resQ) = 2
    /\ resQ[1].id = 1
    /\ resQ[2].id = 2
    /\ wlog.received = 2

\* C2: once the worker has served Finalize it has left its loop: it sent at
\* most one WitnessStack result (exactly one while the receiver is alive), as
\* its last result, and no command issued or queued after Finalize is read
\* or answered.
WitnessStackResults ==
    {i \in 1..Len(wlog.results) : wlog.results[i].variant = "WitnessStack"}

C2_FinalizeIsTerminal ==
    frontend = "protocol" =>
      /\ ~wlog.finalized => WitnessStackResults = {}
      /\ wlog.finalized =>
           /\ wpc = "done"
           /\ cmdQ = <<>>
           /\ pending = NoResult
           /\ wlast.kind = "Finalize"
           /\ WitnessStackResults \subseteq {Len(wlog.results)}
           /\ rxOpen => WitnessStackResults = {wlog.received}
           /\ Len(wlog.results) <= wlog.received

\* a command was queued behind Finalize and dropped unanswered
C2_CommandBehindFinalizeDropped ==
    /\ frontend = "protocol"
    /\ wlog.finalized
    /\ rxOpen
    /\ issued = 2
    /\ wlog.rejected = 0
    /\ wlog.received = 1
    /\ Len(wlog.results) = 1

\* C3: a stepping command of the REPL session is forwarded to the engine
\* exactly when last_result is Ok or BreakpointReached; in a halted session
\* (last_result Error or Done) it is refused, leaving the engine and
\* last_result as they were, and no command but restart ends the halt.
Halted(lr) == lr.tag \in {"Error", "Done"}

C3_SteppingGatedByLastResult ==
    frontend = "repl" =>
      /\ last.cmd \in StepCmds =>
           /\ last.out.msg = "stepped" <=> ~Halted(last.pre.last_result)
           /\ last.out.msg = "refused" <=> Halted(last.pre.last_result)
           /\ Halted(last.pre.last_result) => context = last.pre.context
      /\ Halted(last.pre.last_result) /\ last.cmd # "restart" =>
           last_result = last.pre.last_result

C3_SteppingRefusedWhenHalted ==
    /\ frontend = "repl"
    /\ last.cmd = "over"
    /\ last.out.msg = "refused"
    /\ last_result.tag = "Error"

\* C4: restart leaves a fresh execution state built from the circuit and the
\* initial witness, with exactly the breakpoints present just before it, and
\* in the REPL session last_result is Ok again.
FreshWith(bps) == [DebugContextNew(initial_witness) EXCEPT !.breakpoints = bps]

C4_RestartFreshKeepsBreakpoints ==
    /\ frontend = "repl" /\ last.cmd = "restart" =>
         /\ context = FreshWith(last.pre.context.breakpoints)
         /\ last_result = ResOk
         /\ validate_in_progress(last_result)
    /\ frontend = "protocol" /\ wlast.kind = "Restart" =>
         wctx = FreshWith(wlast.pre.breakpoints)

C4_RestartAfterProgress ==
    /\ frontend = "repl"
    /\ last.cmd = "restart"
    /\ last.pre.context.ip > 0
    /\ last.pre.context.wit # initial_witness
    /\ last.pre.context.breakpoints # {}
    /\ Halted(last.pre.last_result)
    /\ context.breakpoints = last.pre.context.breakpoints

\* C5 (as stated): after restart, repeating the commands of the first run
\* shows the same outputs as in the first run.
C5_ReplayShowsSameOutputs ==
    frontend = "repl" /\ replay.phase = 2 /\ replay.n > 0 =>
      replay.out = replay.run1[replay.n].out

\* C5 (amended): after a restart made with no breakpoint set, as at the start
\* of the first run, repeating the commands of the first run shows the same
\* outputs as in the first run.
C5_ReplayShowsSameOutputsFromSameBreakpoints ==
    frontend = "repl" /\ replay.phase = 2 /\ replay.n > 0 /\ replay.bps = {} =>
      replay.out = replay.run1[replay.n].out

C5_ReplayedOverwriteAndFailure ==
    /\ frontend = "repl"
    /\ replay.phase = 2
    /\ replay.bps = {}
    /\ replay.n = 2
    /\ replay.run1[1].cmd = "witness set"
    /\ replay.run1[2].cmd = "continue"
    /\ replay.out.res = ResError

\* C6: cont returns only with a breakpoint hit, a failed step or completion,
\* and it reports completion only when the solver is solved; from a state in
\* progress with no breakpoint set and every remaining assert satisfied it
\* ends with Done, solved, and the witness can be finalized.
Satisfied(ip, wit) ==
    \A i \in (ip + 1)..Len(Circuit) :
        Circuit[i] = "assert" => wit[AssertWitness[i]] = 1

ContEnds(pre, res, post) ==
    /\ res.tag \in {"BreakpointReached", "Error", "Done"}
    /\ res.tag = "Done" <=> is_solved(post)
    /\ res.tag = "Error" <=> post.status = "Failure"
    /\ res.tag = "BreakpointReached" => breakpoint_reached(post)
    /\ pre.status = "InProgress" /\ pre.breakpoints = {} /\ Satisfied(pre.ip, pre.wit) =>
         /\ res = ResDone
         /\ finalize(post) = <<pre.wit>>

C6_ContRunsToBreakpointFailureOrDone ==
    /\ frontend = "repl" /\ last.cmd = "continue" /\ last.out.msg = "stepped" =>
         /\ ContEnds(last.pre.context, last.out.res, context)
         /\ last_result = last.out.res
    /\ frontend = "protocol" /\ wlast.kind = "Cont" =>
         /\ wlast.result.variant = "DebugCommandResult"
         /\ ContEnds(wlast.pre, wlast.result.val, wctx)
    /\ frontend = "circuit" /\ llast.cmd = "c" =>
         /\ llast.res \in {"Done", "ExecutionError", "ForeignCallError"}
         /\ llast.res = "Done" <=> acvm.status = "Solved"
         /\ llast.res = "Done" => /\ lrepl = "quit"
                                  /\ DebugCircuitReturns = [ok |-> TRUE, witness |-> acvm.wit]
         /\ llast.res = "ExecutionError" <=> acvm.status = "Failure"
         /\ Satisfied(llast.pre.ip, llast.pre.wit) =>
              llast.res \in {"Done", "ForeignCallError"}

C6_ContDoneFromStart ==
    /\ frontend = "circuit"
    /\ llast.cmd = "c"
    /\ llast.pre.ip = 0
    /\ llast.res = "Done"
    /\ solved

\* the context k step_into commands after ctx
RECURSIVE StepN(_, _)
StepN(ctx, k) ==
    IF k = 0 THEN ctx ELSE StepN(step_into_opcode(ctx).ctx, k - 1)

PathLen == Len(Circuit) + Len(Bytecode)

\* execution from ctx arrives at loc after one step or more, without failing
Ahead(ctx, loc) ==
    \E k \in 1..PathLen :
        /\ ~IsTerminal(StepN(ctx, k))
        /\ get_current_debug_location(StepN(ctx, k)) = loc

\* C7 (as stated): after a breakpoint was set at a location L that execution
\* has still to reach, a following cont that the engine runs stops with
\* BreakpointReached(L).
C7_ContStopsAtNewBreakpoint ==
    /\ frontend = "repl" /\ last.cmd = "continue" /\ last.after # NoLoc
          /\ last.out.msg = "stepped" /\ Ahead(last.pre.context, last.after) =>
         last_result = BreakpointReached(last.after)
    /\ frontend = "protocol" /\ wlast.kind = "Cont" /\ wlast.after # NoLoc
          /\ Ahead(wlast.pre, wlast.after) =>
         wlast.result.val = BreakpointReached(wlast.after)

\* execution from ctx arrives at loc after one step or more, without failing
\* and without meeting a location that matches a breakpoint on the way
ReachesFirst(ctx, loc) ==
    \E k \in 1..PathLen :
        /\ ~IsTerminal(StepN(ctx, k))
        /\ get_current_debug_location(StepN(ctx, k)) = loc
        /\ \A j \in 1..(k - 1) : ~breakpoint_reached(StepN(ctx, j))

\* C7 (amended): after a breakpoint was set at a valid location L, a following
\* cont that the engine runs stops with BreakpointReached(L), at L, exactly
\* when L is the first location matching a breakpoint that execution reaches
\* after leaving the current location, before any failure or completion.
ContStopsAt(pre, loc, res, post) ==
    /\ res = BreakpointReached(loc) <=> ~IsTerminal(pre) /\ ReachesFirst(pre, loc)
    /\ res = BreakpointReached(loc) => get_current_debug_location(post) = loc

C7_ContStopsAtFirstBreakpointOnPath ==
    /\ frontend = "repl" /\ last.cmd = "continue" /\ last.after # NoLoc
          /\ last.out.msg = "stepped" =>
         /\ last.out.res = last_result
         /\ ContStopsAt(last.pre.context, last.after, last_result, context)
    /\ frontend = "protocol" /\ wlast.kind = "Cont" /\ wlast.after # NoLoc =>
         ContStopsAt(wlast.pre, wlast.after, wlast.result.val, wctx)

C7_ContStoppedAtNewBreakpoint ==
    /\ frontend = "repl"
    /\ last.cmd = "continue"
    /\ last.after = Brillig(1, 4)
    /\ last_result = BreakpointReached(Brillig(1, 4))
    /\ get_current_debug_location(context) = Brillig(1, 4)

\* C8 (as stated): next_over returns with the call-stack depth of its entry,
\* or in a terminal state.
OverEnds(pre, post) ==
    \/ CallStackDepth(post) = CallStackDepth(pre)
    \/ IsTerminal(post)

C8_NextOverKeepsDepth ==
    /\ frontend = "repl" /\ last.cmd = "over" /\ last.out.msg = "stepped" =>
         OverEnds(last.pre.context, context)
    /\ frontend = "protocol" /\ wlast.kind = "NextOver" => OverEnds(wlast.pre, wctx)

\* C8 (amended): next_over returns with the call-stack depth of its entry, or
\* in a terminal state, or with BreakpointReached at a location matching a
\* breakpoint.
OverEndsOrBreaks(pre, res, post) ==
    \/ res = ResOk /\ CallStackDepth(post) = CallStackDepth(pre)
    \/ res = StatusResult(post) /\ IsTerminal(post)
    \/ /\ res = BreakpointReached(get_current_debug_location(post))
       /\ breakpoint_reached(post)

C8_NextOverKeepsDepthOrBreaks ==
    /\ frontend = "repl" /\ last.cmd = "over" /\ last.out.msg = "stepped" =>
         OverEndsOrBreaks(last.pre.context, last_result, context)
    /\ frontend = "protocol" /\ wlast.kind = "NextOver" =>
         OverEndsOrBreaks(wlast.pre, wlast.result.val, wctx)

\* next_over at the call of f comes back behind the call
C8_SteppedOverCall ==
    /\ frontend = "repl"
    /\ last.cmd = "over"
    /\ last.pre.context.bpc = 1
    /\ last_result = ResOk
    /\ context.bpc = 2
    /\ CallStackDepth(context) = 1

\* C9 (as stated): next_out returns with a call-stack depth strictly less
\* than at its entry, or with the execution ended.
OutEnds(pre, post) ==
    \/ CallStackDepth(post) < CallStackDepth(pre)
    \/ IsTerminal(post)

C9_NextOutLeavesFrame ==
    /\ frontend = "repl" /\ last.cmd = "out" /\ last.out.msg = "stepped" =>
         OutEnds(last.pre.context, context)
    /\ frontend = "protocol" /\ wlast.kind = "NextOut" => OutEnds(wlast.pre, wctx)

\* C9 (amended): next_out returns with a call-stack depth strictly less than
\* at its entry, or with the execution ended (done or error), or with
\* BreakpointReached at a location matching a breakpoint.
OutEndsOrBreaks(pre, res, post) ==
    \/ res = ResOk /\ CallStackDepth(post) < CallStackDepth(pre)
    \/ res = StatusResult(post) /\ IsTerminal(post)
    \/ /\ res = BreakpointReached(get_current_debug_location(post))
       /\ breakpoint_reached(post)

C9_NextOutLeavesFrameOrBreaks ==
    /\ frontend = "repl" /\ last.cmd = "out" /\ last.out.msg = "stepped" =>
         OutEndsOrBreaks(last.pre.context, last_result, context)
    /\ frontend = "protocol" /\ wlast.kind = "NextOut" =>
         OutEndsOrBreaks(wlast.pre, wlast.result.val, wctx)

\* next_out inside g comes back into f
C9_SteppedOutOfCallee ==
    /\ frontend = "repl"
    /\ last.cmd = "out"
    /\ CallStackDepth(last.pre.context) = 3
    /\ last_result = ResOk
    /\ CallStackDepth(context) = 2

HasCallStack(error) ==
    \/ error.kind = "UnsatisfiedConstrain" /\ error.loc # NoLoc
    \/ error.kind = "BrilligFunctionFailed"

StackOf(error) ==
    IF error.kind = "BrilligFunctionFailed" THEN error.stack ELSE <<error.loc>>

MessagesAt(messages, loc) == {i \in 1..Len(messages) : messages[i].loc = loc}

Minimum(S) == CHOOSE i \in S : \A k \in S : i <= k

C11_AssertionFailedIffMessageAtLastLocation ==
    frontend = "circuit" =>
      /\ llast.res = "ExecutionError" <=> acvm.status = "Failure"
      /\ llast.res = "ExecutionError" =>
           LET stack == StackOf(acvm.error)
               at == MessagesAt(assert_messages, stack[Len(stack)])
           IN /\ llast.err.kind \in {"AssertionFailed", "SolvingError"}
              /\ llast.err.kind = "AssertionFailed" <=>
                   HasCallStack(acvm.error) /\ at # {}
              /\ llast.err.kind = "AssertionFailed" =>
                   /\ llast.err.stack = stack
                   /\ llast.err.msg = assert_messages[Minimum(at)].msg
              /\ llast.err.kind = "SolvingError" => llast.err.error = acvm.error
      /\ llast.res # "ExecutionError" => llast.err = NoExecutionError

C11_BrilligFailureWithMessage ==
    /\ frontend = "circuit"
    /\ llast.res = "ExecutionError"
    /\ acvm.error = BrilligFunctionFailed(<<Brillig(1, 1), Brillig(1, 4)>>)
    /\ llast.err = AssertionFailed("callee", <<Brillig(1, 1), Brillig(1, 4)>>)

\* a step of debug_circuit met a foreign call and the executor failed: the
\* call is still pending
ForeignCallFailed == frontend = "circuit" /\ acvm.status = "RequiresForeignCall"

C13_NoPendingForeignCallBetweenCommands ==
    frontend = "circuit" =>
      /\ llast.res \in {"Ok", "Done"} => acvm.status \in {"InProgress", "Solved"}
      /\ lrepl = "running" => acvm.status = "InProgress"
      /\ /\ llast.cmd = "s"
         /\ llast.res = "Ok"
         /\ Circuit[llast.pre.ip + 1] = "brillig"
         /\ ~llast.pre.resolved
         => /\ acvm.resolved
            /\ acvm.ip = llast.pre.ip
            /\ acvm.wit = llast.pre.wit

C13_StepResolvedForeignCall ==
    /\ frontend = "circuit"
    /\ llast.cmd = "s"
    /\ llast.res = "Ok"
    /\ ~llast.pre.resolved
    /\ acvm.resolved
    /\ acvm.status = "InProgress"
    /\ lrepl = "running"

\* recv returns Err: no command is queued and the sender is dropped
RecvFails == wpc = "recv" /\ cmdQ = <<>> /\ ~txOpen

\* send returns Err: a result is to be sent and the receiver is dropped
SendFails == wpc = "send" /\ ~rxOpen

\* C14: once the front-end has dropped its command sender, or has dropped
\* its result receiver and the worker has a result to send, the worker
\* eventually leaves its loop; the step the worker takes when its recv or
\* its send fails is the one that leaves the loop, it serves no command and
\* leaves the context alone, and a worker that has left the loop serves no
\* command any more.
C14_WorkerLeavesWhenChannelFails ==
    /\ ~txOpen ~> wpc = "done"
    /\ SendFails ~> wpc = "done"
    /\ [][(RecvFails \/ SendFails) /\ wpc' # wpc
            => /\ wpc' = "done"
               /\ wlog'.received = wlog.received
               /\ wctx' = wctx]_vars
    /\ [][wpc = "done"
            => /\ wpc' = "done"
               /\ wlog'.received = wlog.received
               /\ wctx' = wctx]_vars

\* the worker has left the loop, without a Finalize, after a send that
\* failed: a command was served and its result never written
C14_LeftAfterFailedSend ==
    /\ frontend = "protocol"
    /\ wpc = "done"
    /\ ~wlog.finalized
    /\ ~rxOpen
    /\ txOpen
    /\ wlog.received = 1
    /\ wlog.results = <<>>

\* the variant each command is answered with (the pairing of the two enums)
VariantOf(kind) ==
    CASE kind \in SteppingKinds -> "DebugCommandResult"
      [] kind \in {"AddBreakpoint", "DeleteBreakpoint", "IsBreakpointSet",
                   "IsValidDebugLocation", "IsExecutingBrillig", "IsSolved"} -> "Bool"
      [] kind \in {"Restart", "WriteBrilligMemory"} -> "Unit"
      [] kind = "OverwriteWitness" -> "Field"
      [] kind = "Finalize" -> "WitnessStack"
      [] kind \in {"GetCurrentDebugLocation", "FindOpcodeAtCurrentFileLine"} ->
           "DebugLocation"
      [] kind \in {"GetOpcodes", "GetOpcodesOfCircuit"} -> "Opcodes"
      [] kind = "GetSourceLocationForDebugLocation" -> "Locations"
      [] kind = "GetCallStack" -> "DebugLocations"
      [] kind = "GetWitnessMap" -> "WitnessMap"
      [] kind = "GetBrilligMemory" -> "MemoryValue"
      [] kind = "GetVariables" -> "Variables"

\* C15: in every engine state in which the worker waits for a command,
\* every command of the enum, whatever its argument, is answered with the
\* one variant of its kind; the answer the worker built for the command it
\* served last has the variant of that command's kind, Finalize included.
C15_VariantDeterminedByCommandKind ==
    frontend = "protocol" =>
        /\ wpc = "recv" =>
              \A c \in DebugCommandAPI :
                  c.kind # "Finalize" =>
                      Handle(wctx, c.kind, c.arg).result.variant = VariantOf(c.kind)
        /\ wlast.kind # "none" => wlast.result.variant = VariantOf(wlast.kind)
        /\ pending # NoResult => pending.variant = VariantOf(wlast.kind)

\* a stepping command was served when the execution was already over
C15_SteppingAnsweredWhenSolved ==
    /\ frontend = "protocol"
    /\ wlast.kind = "NextOver"
    /\ is_solved(wlast.pre)
    /\ wlast.result.variant = "DebugCommandResult"
    /\ wlast.result.val = ResDone

\* the frames of a store below its top frame
OlderFrames(store) == SubSeq(store.frames, 1, Len(store.frames) - 1)

TopFrame(store) == store.frames[Len(store.frames)]

SameTables(a, b) ==
    /\ a.id_to_name = b.id_to_name
    /\ a.id_to_type = b.id_to_type
    /\ a.types = b.types

\* the last call was op and it returned
Did(op) == frontend = "store" /\ dlast.call.op = op /\ ~dlast.panicked

\* C16: after a drop(var_id) that returned, the top frame binds what it
\* bound before except var_id, to the same values; the older frames, the
\* number of frames, the function of the top frame and the name and type
\* tables are as before.
C16_DropRemovesFromTopFrameOnly ==
    Did("drop") =>
        /\ Len(debug_vars.frames) = Len(dlast.pre.frames)
        /\ OlderFrames(debug_vars) = OlderFrames(dlast.pre)
        /\ TopFrame(debug_vars).fn_id = TopFrame(dlast.pre).fn_id
        /\ DOMAIN TopFrame(debug_vars).vars
              = DOMAIN TopFrame(dlast.pre).vars \ {dlast.call.var_id}
        /\ \A v \in DOMAIN TopFrame(debug_vars).vars :
              TopFrame(debug_vars).vars[v] = TopFrame(dlast.pre).vars[v]
        /\ SameTables(debug_vars, dlast.pre)

\* a variable bound in both of two frames was dropped: the older frame
\* still binds it
C16_DroppedVariableBoundBelow ==
    /\ Did("drop")
    /\ Len(dlast.pre.frames) = 2
    /\ dlast.call.var_id \in DOMAIN dlast.pre.frames[1].vars
    /\ dlast.call.var_id \in DOMAIN dlast.pre.frames[2].vars
    /\ dlast.call.var_id \in DOMAIN debug_vars.frames[1].vars
    /\ dlast.call.var_id \notin DOMAIN debug_vars.frames[2].vars

\* the variable ids bound in some frame of a store
BoundIds(store) ==
    UNION {DOMAIN store.frames[k].vars : k \in 1..Len(store.frames)}

\* C17: in every store reached by calls of insert_variables, insert_types,
\* push_fn, pop_fn, assign, assign_field and drop on a new store, none of
\* which panicked, every variable id bound in a frame has a name in
\* id_to_name and a type id in id_to_type.
C17_BoundVariablesAreNamedAndTyped ==
    (frontend = "store" /\ ~dlast.panicked) =>
        \A v \in BoundIds(debug_vars) :
            /\ v \in DOMAIN debug_vars.id_to_name
            /\ v \in DOMAIN debug_vars.id_to_type

\* a variable that the store was built without is bound in the older of
\* two frames, after an assign_field on it
C17_DeclaredVariableBoundBelow ==
    /\ frontend = "store"
    /\ ~dlast.panicked
    /\ Len(debug_vars.frames) = 2
    /\ 1 \notin DOMAIN InitialNames
    /\ 1 \in DOMAIN debug_vars.frames[1].vars
    /\ 1 \notin DOMAIN debug_vars.frames[2].vars
    /\ dlast.call.op = "push_fn"
    /\ debug_vars.frames[1].vars[1] = VecV(<<FieldV(0), FieldV(0)>>)

\* a step from a value to one of its sub-values: the index of an element of
\* a Vec, or the name of a field of a Struct
AtIndex(i) == [i |-> i, key |-> ""]

AtKey(key) == [i |-> -1, key |-> key]

StepsOf(value) ==
    CASE value.kind = "Vec" -> {AtIndex(i - 1) : i \in 1..Len(value.items)}
      [] value.kind = "Struct" -> {AtKey(key) : key \in DOMAIN value.map}
      [] OTHER -> {}

Child(value, step) ==
    IF value.kind = "Vec" THEN value.items[step.i + 1] ELSE value.map[step.key]

RECURSIVE Positions(_)

\* the positions of the sub-values of a value, the value itself at <<>>
Positions(value) ==
    {<<>>} \cup UNION {{<<step>> \o q : q \in Positions(Child(value, step))} :
                          step \in StepsOf(value)}

RECURSIVE SubValue(_, _)

SubValue(value, pos) ==
    IF pos = <<>> THEN value ELSE SubValue(Child(value, Head(pos)), Tail(pos))

IsPrefix(a, b) == Len(a) <= Len(b) /\ SubSeq(b, 1, Len(a)) = a

RECURSIVE Addressed(_, _)

\* the position a path of indexes addresses in a value of a type, and the
\* type there
Addressed(typ, indexes) ==
    IF indexes = <<>> THEN [pos |-> <<>>, typ |-> typ]
    ELSE LET index == Head(indexes)
             step == IF typ.kind = "Struct" THEN AtKey(typ.fields[index + 1].name)
                     ELSE AtIndex(index)
             inner == CASE typ.kind = "Array" -> typ.typ
                        [] typ.kind = "Tuple" -> typ.types[index + 1]
                        [] typ.kind = "Struct" -> typ.fields[index + 1].typ
             r == Addressed(inner, Tail(indexes))
         IN [pos |-> <<step>> \o r.pos, typ |-> r.typ]

\* two values are alike at every position that is not at or below pos: the
\* same sub-value beside pos, the same kind of value with the same elements
\* or fields on the way to pos
SameOutside(old, new, pos) ==
    \A q \in Positions(old) \cup Positions(new) :
        ~IsPrefix(pos, q) =>
            /\ q \in Positions(old)
            /\ q \in Positions(new)
            /\ IF IsPrefix(q, pos)
               THEN /\ SubValue(new, q).kind = SubValue(old, q).kind
                    /\ StepsOf(SubValue(new, q)) = StepsOf(SubValue(old, q))
               ELSE SubValue(new, q) = SubValue(old, q)

\* C18: after an assign_field(var_id, indexes, values) that returned, the
\* value of var_id on the top frame has the value decoded from values at
\* the position the indexes address, and is as before at every position
\* that is not at or below it: the same sub-value beside the path, the same
\* kind of value with the same elements or fields along the path.  The other
\* variables of the top frame, the older frames, the number of frames and
\* the tables are as before.
C18_AssignFieldWritesAtPathOnly ==
    Did("assign_field") =>
        LET pre == dlast.pre
            v == dlast.call.var_id
            old == TopFrame(pre).vars[v]
            new == TopFrame(debug_vars).vars[v]
            a == Addressed(pre.types[pre.id_to_type[v]], dlast.call.indexes)
        IN /\ a.pos \in Positions(old)
           /\ a.pos \in Positions(new)
           /\ SubValue(new, a.pos) = decode_value(dlast.call.values, a.typ).value
           /\ SameOutside(old, new, a.pos)
           /\ DOMAIN TopFrame(debug_vars).vars = DOMAIN TopFrame(pre).vars
           /\ \A u \in DOMAIN TopFrame(pre).vars \ {v} :
                 TopFrame(debug_vars).vars[u] = TopFrame(pre).vars[u]
           /\ TopFrame(debug_vars).fn_id = TopFrame(pre).fn_id
           /\ Len(debug_vars.frames) = Len(pre.frames)
           /\ OlderFrames(debug_vars) = OlderFrames(pre)
           /\ SameTables(debug_vars, pre)

\* an element of an array inside a tuple was given another value
C18_WroteInsideNestedArray ==
    /\ Did("assign_field")
    /\ dlast.call.indexes = <<1, 0>>
    /\ dlast.call.var_id = 1
    /\ TopFrame(dlast.pre).vars[1]
          = VecV(<<FieldV(0), VecV(<<FieldV(1), FieldV(1)>>), FieldV(0)>>)
    /\ TopFrame(debug_vars).vars[1]
          = VecV(<<FieldV(0), VecV(<<FieldV(0), FieldV(1)>>), FieldV(0)>>)

\* C19: an assign for a var_id without an entry in id_to_type panics; an
\* assign that panicked stored nothing, and no call is made on the store
\* after it; an assign that returned was for a var_id with an entry, and the
\* top frame binds var_id to the value decoded from the stream with the
\* type registered for it, while the other variables of the top frame, the
\* older frames, the number of frames and the tables are as before.
C19_AssignPanicsUnregisteredStoresOnTop ==
    (frontend = "store" /\ dlast.call.op = "assign") =>
        LET pre == dlast.pre
            v == dlast.call.var_id
        IN /\ v \notin DOMAIN pre.id_to_type => dlast.panicked
           /\ dlast.panicked =>
                 /\ debug_vars = pre
                 /\ ~ENABLED StoreAssign
                 /\ ~ENABLED StorePushFn
           /\ ~dlast.panicked =>
                 /\ v \in DOMAIN pre.id_to_type
                 /\ TopFrame(debug_vars).vars[v]
                       = decode_value(dlast.call.values,
                                      pre.types[pre.id_to_type[v]]).value
                 /\ DOMAIN TopFrame(debug_vars).vars
                       = DOMAIN TopFrame(pre).vars \cup {v}
                 /\ \A u \in DOMAIN TopFrame(pre).vars \ {v} :
                       TopFrame(debug_vars).vars[u] = TopFrame(pre).vars[u]
                 /\ TopFrame(debug_vars).fn_id = TopFrame(pre).fn_id
                 /\ Len(debug_vars.frames) = Len(pre.frames)
                 /\ OlderFrames(debug_vars) = OlderFrames(pre)
                 /\ SameTables(debug_vars, pre)

\* an assign panicked for a variable that has a name and no type, on a
\* store with a frame, the types registered, and a stream long enough for
\* any of them
C19_AssignToUntypedVariablePanicked ==
    /\ frontend = "store"
    /\ dlast.call.op = "assign"
    /\ dlast.panicked
    /\ dlast.call.var_id \in DOMAIN dlast.pre.id_to_name
    /\ dlast.call.var_id \notin DOMAIN dlast.pre.id_to_type
    /\ dlast.pre.frames # <<>>
    /\ DOMAIN dlast.pre.types = {1, 2}
    /\ dlast.call.values = <<0, 1, 1, 0>>

\* the step cannot be taken as the claim has it: the index is past the end
\* of the value or of its type, the type declares another number of
\* elements than the value has, or the cursor is not an array, a struct or
\* a tuple of its type
BadStep(cursor, cursor_type, index) ==
    CASE cursor.kind = "Vec" /\ cursor_type.kind = "Array" ->
           \/ index >= Len(cursor.items)
           \/ cursor_type.length # NoLength /\ index >= cursor_type.length
           \/ cursor_type.length # NoLength /\ cursor_type.length # Len(cursor.items)
      [] cursor.kind = "Vec" /\ cursor_type.kind = "Tuple" ->
           \/ index >= Len(cursor_type.types)
           \/ Len(cursor_type.types) # Len(cursor.items)
      [] cursor.kind = "Struct" /\ cursor_type.kind = "Struct" ->
           index >= Len(cursor_type.fields)
      [] OTHER -> TRUE

RECURSIVE PathFails(_, _, _)

\* some step of the path cannot be taken, or leads to a field the value
\* does not have
PathFails(cursor, cursor_type, indexes) ==
    /\ indexes # <<>>
    /\ \/ BadStep(cursor, cursor_type, Head(indexes))
       \/ LET a == Addressed(cursor_type, <<Head(indexes)>>) IN
          /\ a.pos \in Positions(cursor)
          /\ PathFails(SubValue(cursor, a.pos), a.typ, Tail(indexes))
       \/ LET a == Addressed(cursor_type, <<Head(indexes)>>) IN
          a.pos \notin Positions(cursor)

\* C20: an assign_field on a variable bound on the top frame, of a
\* registered type, whose path has a step that cannot be taken panics; an
\* assign_field that panicked wrote nothing; one that returned took every
\* step of its path, left every variable other than its own as it was, and
\* left its own as it was at every position that is not at or below the one
\* the path addresses.
C20_AssignFieldPanicsOnBadPath ==
    (frontend = "store" /\ dlast.call.op = "assign_field") =>
        LET pre == dlast.pre
            v == dlast.call.var_id
            bound == /\ pre.frames # <<>>
                     /\ v \in DOMAIN TopFrame(pre).vars
                     /\ v \in DOMAIN pre.id_to_type
                     /\ pre.id_to_type[v] \in DOMAIN pre.types
        IN /\ (bound /\ PathFails(TopFrame(pre).vars[v], pre.types[pre.id_to_type[v]],
                                  dlast.call.indexes)) => dlast.panicked
           /\ dlast.panicked => debug_vars = pre
           /\ ~dlast.panicked =>
                 /\ bound
                 /\ ~PathFails(TopFrame(pre).vars[v], pre.types[pre.id_to_type[v]],
                               dlast.call.indexes)
                 /\ debug_vars.frames
                       = [pre.frames EXCEPT ![Len(pre.frames)].vars[v]
                                                = TopFrame(debug_vars).vars[v]]
                 /\ SameTables(debug_vars, pre)
                 /\ SameOutside(TopFrame(pre).vars[v], TopFrame(debug_vars).vars[v],
                                Addressed(pre.types[pre.id_to_type[v]],
                                          dlast.call.indexes).pos)

\* an assign_field through a value of two elements whose type has since
\* been registered as a tuple of three panicked, the index within both
C20_LengthMismatchPanicked ==
    /\ frontend = "store"
    /\ dlast.call.op = "assign_field"
    /\ dlast.panicked
    /\ dlast.call.indexes = <<0>>
    /\ dlast.call.values = <<0, 1, 1, 0>>
    /\ dlast.call.var_id = 1
    /\ dlast.pre.frames # <<>>
    /\ 1 \in DOMAIN TopFrame(dlast.pre).vars
    /\ TopFrame(dlast.pre).vars[1].kind = "Vec"
    /\ Len(TopFrame(dlast.pre).vars[1].items) = 2
    /\ dlast.pre.types[dlast.pre.id_to_type[1]].kind = "Tuple"
    /\ Len(dlast.pre.types[dlast.pre.id_to_type[1]].types) = 3

\* The call just made on the store, whether it returned or panicked.
Called(op) == frontend = "store" /\ dlast.call.op = op

\* ---------------------------------------------------------------------------
\* C21: assign_deref is reserved: a call fails with an Unsupported outcome, not
\* with a fatal abort, and leaves every frame and table of the store as it
\* was.  Stated of the call just made: it did not panic and the store is the
\* store before the call.  The code panics (unimplemented![]), so the first
\* half fails; the second half, C21_AssignDerefLeavesStore, holds.
C21_AssignDerefFailsWithoutAbort ==
    Called("assign_deref") => (~dlast.panicked /\ debug_vars = dlast.pre)

C21_AssignDerefLeavesStore ==
    Called("assign_deref") => debug_vars = dlast.pre

C21_AssignDerefCalledOnBoundStore ==
    /\ Called("assign_deref")
    /\ dlast.panicked
    /\ BoundIds(dlast.pre) # {}

\* the kinds of type a type is built from
RECURSIVE KindsOf(_)
KindsOf(typ) ==
    {typ.kind} \cup
    CASE typ.kind = "Array" -> KindsOf(typ.typ)
      [] typ.kind = "Tuple" -> UNION {KindsOf(typ.types[i]) : i \in 1..Len(typ.types)}
      [] typ.kind = "Struct" ->
           UNION {KindsOf(typ.fields[i].typ) : i \in 1..Len(typ.fields)}
      [] OTHER -> {}

Decoded == frontend = "printable" /\ pt.op = "decode"

\* ---------------------------------------------------------------------------
\* C22: round trip.  For every printable type of fixed size (field_count is
\* Some(n)) and every in-range value of it, laying the value out as n field
\* elements in order and running decode_value over them yields the value
\* again, with nothing left over - structs, nested tuples and arrays included.
C22_EncodeThenDecodeYieldsValue ==
    (Decoded /\ pt.encoded) =>
        /\ Len(pt.stream) = field_count(pt.typ)
        /\ pt.out.ok
        /\ pt.out.value = pt.value
        /\ pt.out.rest = <<>>

C22_NestedTupleRoundTripped ==
    /\ Decoded /\ pt.encoded
    /\ pt.typ.kind = "Tuple"
    /\ pt.out.value.items[2].kind = "Vec"
    /\ pt.out.value.items[2].items[2] = StringV(<<105>>)

Formatted == frontend = "printable" /\ pt.op = "format"

\* ---------------------------------------------------------------------------
\* C24: formatting a (value, type) pair never panics and never fails, whatever
\* the combination - a struct value missing a declared field, a Vec with type
\* Field, a type without a printable form: the result is always a string.
\* The code fails with a formatting error on a pair to_string has no rule for
\* and panics on a missing struct field or a failing item, so TLC finds this
\* violated.
C24_FormattingAlwaysYieldsString ==
    Formatted => pt.out.tag = "Ok"

\* a struct value without the declared field b was formatted with the struct
\* type, and the formatting panicked
C24_StructMissingFieldFormatted ==
    /\ Formatted
    /\ pt.typ = PairT
    /\ pt.value = StructV("a" :> FieldV(1))
    /\ pt.out.tag = "Panic"

(***************************************************************************)
(* Properties of the instrumenter.                                         *)
(***************************************************************************)
RECURSIVE StatementsIn(_)
RECURSIVE StatementsInExpr(_)
RECURSIVE StatementsInExprs(_)

StatementsInExprs(exprs) ==
    IF exprs = <<>> THEN <<>>
    ELSE StatementsInExpr(Head(exprs)) \o StatementsInExprs(Tail(exprs))

StatementsInExpr(expr) ==
    CASE expr.kind = "Block" -> StatementsIn(expr.statements)
      [] expr.kind = "Infix" -> StatementsInExprs(<<expr.lhs, expr.rhs>>)
      [] expr.kind = "Tuple" -> StatementsInExprs(expr.exprs)
      [] expr.kind = "Constructor" ->
           StatementsInExprs([i \in 1..Len(expr.fields) |-> expr.fields[i].expr])
      [] expr.kind = "Call" -> StatementsInExprs(<<expr.func>> \o expr.arguments)
      [] expr.kind = "If" ->
           StatementsInExprs(<<expr.condition, expr.consequence>>
                             \o (IF expr.alternative = NoElse THEN <<>>
                                 ELSE <<expr.alternative>>))
      [] expr.kind = "Lambda" -> StatementsInExpr(expr.body)
      [] OTHER -> <<>>

\* every statement of a tree, inner ones included, in textual order
StatementsIn(stmts) ==
    IF stmts = <<>> THEN <<>>
    ELSE LET stmt == Head(stmts)
             inner == CASE stmt.kind \in {"Let", "Assign"} ->
                             StatementsInExpr(stmt.expression)
                        [] stmt.kind \in {"Expression", "Semi"} ->
                             StatementsInExpr(stmt.expr)
                        [] stmt.kind = "For" -> StatementsInExpr(stmt.block)
         IN <<stmt>> \o inner \o StatementsIn(Tail(stmts))

RECURSIVE Flatten(_)
Flatten(seqs) == IF seqs = <<>> THEN <<>> ELSE Head(seqs) \o Flatten(Tail(seqs))

\* the names of a list of (identifier, is_mut) pairs
IdsOf(pvars) == [i \in 1..Len(pvars) |-> pvars[i].id]

\* the identifiers the parameters of a function bind, in textual order
BoundByParams(f) ==
    Flatten([i \in 1..Len(f.parameters) |-> IdsOf(pattern_vars_depth_first(f.parameters[i]))])

\* the identifiers a function binds - parameters, let patterns and loop
\* variables - in textual order
BoundBy(f) ==
    LET all == StatementsIn(f.body) IN
    BoundByParams(f)
    \o Flatten([i \in 1..Len(all) |->
                   CASE all[i].kind = "Let" -> IdsOf(pattern_vars_depth_first(all[i].pattern))
                     [] all[i].kind = "For" -> <<all[i].identifier>>
                     [] OTHER -> <<>>])

IsOracleCall(stmt, name) ==
    /\ stmt.kind = "Semi"
    /\ stmt.expr.kind = "Call"
    /\ stmt.expr.func = Variable(name)

IsVarAssign(stmt) == IsOracleCall(stmt, "__debug_var_assign")

IsVarDrop(stmt) == IsOracleCall(stmt, "__debug_var_drop")

\* the var_id a var_assign or var_drop statement names
VarIdOf(stmt) == stmt.expr.arguments[1].value

\* every statement of the instrumented module
Emitted == Flatten([k \in 1..Len(inst.module) |-> StatementsIn(inst.items[k].body)])

\* how many var_drop (var_assign) statements the instrumented module has for
\* the var_id
DropsFor(var_id) ==
    Cardinality({i \in 1..Len(Emitted) : IsVarDrop(Emitted[i]) /\ VarIdOf(Emitted[i]) = var_id})

AssignsFor(var_id) ==
    Cardinality({i \in 1..Len(Emitted) :
                    IsVarAssign(Emitted[i]) /\ VarIdOf(Emitted[i]) = var_id})

RECURSIVE Live(_)
\* the var_ids the debugger reports after the oracle calls of a run: those
\* assigned and not dropped since
Live(trace) ==
    IF trace = <<>> THEN {}
    ELSE LET before == Live(SubSeq(trace, 1, Len(trace) - 1))
             call == trace[Len(trace)]
         IN IF call.op = "assign" THEN before \cup {call.var_id}
            ELSE before \ {call.var_id}

Instrumented == frontend = "instrument" /\ inst.phase \notin {"parsed", "disabled"}

Ran == frontend = "instrument" /\ inst.phase = "ran"

\* ---------------------------------------------------------------------------
\* C25: instrumentation preserves the observable semantics of the program:
\* every function that runs as written runs as instrumented too, on the same
\* arguments, and returns the same value (the trailing expression, bound to
\* __debug_expr before the drops and returned after them; lets binding the
\* same identifiers to the same values; assignments storing the same value).
\* TLC finds this violated: a let with a struct pattern that renames a field
\* is rewritten into a program that reads the field name as a variable.
C25_InstrumentedRunsAsOriginal ==
    Ran => /\ inst.instrumented.ok
           /\ inst.instrumented.value = inst.original.value

C25_StructLetInstrumentedAndRun ==
    /\ Ran
    /\ inst.module = <<FnStruct>>
    /\ inst.original.value = FieldV(3)
    /\ ~inst.instrumented.ok

\* ---------------------------------------------------------------------------
\* C26: variable ids are monotonic and unique.  insert_var hands out 0, 1, 2,
\* ... in allocation order, never the same id twice, and the name recorded
\* for an id is the name it was allocated for - no later allocation changes
\* it.
C26_VarIdsMonotonicAndUnique ==
    Instrumented =>
        LET allocated == inst.state.allocated IN
        /\ \A i \in 1..Len(allocated) : allocated[i].var_id = i - 1
        /\ inst.state.next_var_id = Len(allocated)
        /\ DOMAIN inst.state.variables = 0..(Len(allocated) - 1)
        /\ \A i \in 1..Len(allocated) :
               inst.state.variables[allocated[i].var_id] = allocated[i].name

C26_SameNameAllocatedTwice ==
    /\ Instrumented
    /\ \E i, j \in 1..Len(inst.state.allocated) :
           /\ i < j
           /\ inst.state.allocated[i].name = inst.state.allocated[j].name
           /\ inst.state.variables[i - 1] = inst.state.variables[j - 1]

\* ---------------------------------------------------------------------------
\* C27: allocation is deterministic and follows the text: var_ids go to the
\* identifiers bound by parameters and let patterns (nested tuple and struct
\* patterns included) in depth-first, left-to-right textual order, and
\* instrumenting the same module twice from a fresh state gives every
\* identifier the same id.  TLC finds the order violated: pattern_vars takes
\* the sub-patterns of a pattern breadth first and counts the field names of a
\* struct pattern as well.
C27_AllocationInTextualOrder ==
    Instrumented =>
        /\ [i \in 1..Len(inst.state.allocated) |-> inst.state.allocated[i].name]
               = Flatten([k \in 1..Len(inst.module) |-> BoundBy(inst.module[k])])
        /\ inst.phase = "compiled twice" =>
               inst.again.state.variables = inst.state.variables

\* the half of C27 that holds: the ids do not depend on the compilation
C27_SameIdsWhenCompiledTwice ==
    (frontend = "instrument" /\ inst.phase = "compiled twice") =>
        /\ inst.again.state.variables = inst.state.variables
        /\ inst.again.state.allocated = inst.state.allocated

C27_NestedTupleCompiledTwice ==
    /\ frontend = "instrument"
    /\ inst.phase = "compiled twice"
    /\ inst.module = <<FnNested>>
    /\ inst.state.variables[1] = "c"
    /\ inst.again.state.descending # inst.state.descending

\* ---------------------------------------------------------------------------
\* C28: at the exit of every instrumented scope a var_drop is emitted for
\* every var_id allocated in the scope - one per bound identifier, also when
\* two bindings share a name - so that a variable is no longer reported once
\* its scope is left.  Stated of the whole module: every var_id allocated has
\* a var_drop statement, and after a run no variable is left reported.  TLC
\* finds this violated: the scope maps names to ids, so of two bindings of a
\* name only the later one is dropped.
C28_EveryAllocatedIdIsDropped ==
    Instrumented =>
        /\ \A i \in 1..Len(inst.state.allocated) :
               DropsFor(inst.state.allocated[i].var_id) >= 1
        /\ (inst.phase = "ran" /\ inst.instrumented.ok) =>
               Live(inst.instrumented.trace) = {}

C28_ShadowedBindingLeftReported ==
    /\ Ran
    /\ inst.module = <<FnShadow>>
    /\ Live(inst.instrumented.trace) = {1}
    /\ DropsFor(1) = 0

\* ---------------------------------------------------------------------------
\* C29: walk_fn allocates one var_id per identifier bound by the parameter
\* patterns and puts one var_assign(var_id, ident) per parameter in front of
\* every statement of the instrumented body.  Stated of every function: its
\* instrumented body starts with exactly as many var_assign statements as the
\* parameters bind identifiers, one for each of them, with pairwise different
\* var_ids recorded under the identifier's name.  TLC finds this violated for
\* a struct pattern, whose field is counted twice.
C29_OneAssignPerParameterInFront ==
    Instrumented =>
        \A k \in 1..Len(inst.module) :
            LET bound == BoundByParams(inst.module[k])
                body == inst.items[k].body
                n == Len(bound)
            IN /\ Len(body) > n
               /\ \A i \in 1..n :
                      /\ IsVarAssign(body[i])
                      /\ inst.state.variables[VarIdOf(body[i])] \in
                             {bound[j] : j \in 1..n}
                      /\ body[i].expr.arguments[2] =
                             Variable(inst.state.variables[VarIdOf(body[i])])
               /\ {body[i].expr.arguments[2].name : i \in 1..n} = {bound[j] : j \in 1..n}
               /\ \A i, j \in 1..n : i # j => VarIdOf(body[i]) # VarIdOf(body[j])
               /\ ~IsVarAssign(body[n + 1])

C29_StructParameterAssignedTwice ==
    /\ Instrumented
    /\ inst.module = <<FnStructParam>>
    /\ IsVarAssign(inst.items[1].body[1])
    /\ IsVarAssign(inst.items[1].body[2])
    /\ inst.state.next_var_id = 2

\* ---------------------------------------------------------------------------
\* C30: a for loop's rewritten body starts with var_assign(id_i, i) and ends
\* with var_drop(id_i), so the variable is assigned and dropped in every
\* iteration, and the loop variable belongs to the loop body only: after the
\* loop its name does not resolve to id_i, and the exit of the enclosing
\* scope emits no drop for id_i.  Stated of every for statement of the
\* instrumented module: its block is var_assign(id_i, i); the walked body;
\* var_drop(id_i), and these are the only var_assign and var_drop statements
\* for id_i.  TLC finds the second half violated: walk_for inserts the loop
\* variable into the enclosing scope.
C30_LoopVariableBelongsToLoopBody ==
    Instrumented =>
        \A i \in 1..Len(Emitted) :
            Emitted[i].kind = "For" =>
                LET stmts == Emitted[i].block.statements
                    id_i == VarIdOf(stmts[1])
                IN /\ Len(stmts) = 3
                   /\ stmts[1] = wrap_assign_var(id_i, Variable(Emitted[i].identifier))
                   /\ stmts[2].kind = "Semi"
                   /\ stmts[3] = wrap_drop_var(id_i)
                   /\ inst.state.variables[id_i] = Emitted[i].identifier
                   /\ DropsFor(id_i) = 1
                   /\ AssignsFor(id_i) = 1

\* the half of C30 that holds: the shape of the rewritten loop body
C30_LoopBodyAssignsAndDrops ==
    Instrumented =>
        \A i \in 1..Len(Emitted) :
            Emitted[i].kind = "For" =>
                LET stmts == Emitted[i].block.statements
                    id_i == VarIdOf(stmts[1])
                IN /\ Len(stmts) = 3
                   /\ stmts[1] = wrap_assign_var(id_i, Variable(Emitted[i].identifier))
                   /\ stmts[2].kind = "Semi"
                   /\ stmts[3] = wrap_drop_var(id_i)
                   /\ inst.state.variables[id_i] = Emitted[i].identifier

C30_AssignmentAfterLoopNamesLoopVariable ==
    /\ Ran
    /\ inst.module = <<FnLoopShadow>>
    /\ DropsFor(1) = 2
    /\ AssignsFor(1) = 2
    /\ inst.state.variables[1] = "i"

\* ---------------------------------------------------------------------------
\* the oracle functions among the items of the instrumented module
OraclesIn(items) == {k \in 1..Len(items) : "name" \in DOMAIN items[k]}

\* the names the parameters of the oracle declarations bind
OracleParams ==
    UNION {{OracleItems[k].parameters[i].id : i \in 1..Len(OracleItems[k].parameters)} :
              k \in OraclesIn(OracleItems)}

\* C31: insert_symbols appends the oracle declarations only after every
\* function of the module has been walked: the items the module ends with are
\* the declarations exactly as parsed (none wrapped, no var_id allocated for
\* their parameters), they are there once, and with instrumentation disabled
\* the module and the state are left as they were.
C31_OraclesAppendedOnceAfterWalk ==
    (frontend = "instrument" /\ inst.phase \notin {"none", "parsed"}) =>
        IF ~inst.state.enabled
        THEN /\ inst.items = inst.module
             /\ inst.state = [DebugStateDefault(inst.state.descending)
                                 EXCEPT !.enabled = FALSE]
        ELSE ~inst.state.panicked =>
             /\ Len(inst.items) = Len(inst.module) + Len(OracleItems)
             /\ SubSeq(inst.items, Len(inst.module) + 1, Len(inst.items)) = OracleItems
             /\ OraclesIn(inst.items)
                    = {Len(inst.module) + k : k \in OraclesIn(OracleItems)}
             /\ \A i \in 1..Len(inst.state.allocated) :
                    inst.state.allocated[i].name \notin OracleParams
             /\ \A k \in 1..Len(inst.module) : inst.items[k] # inst.module[k]

\* a module of two functions was instrumented: both were rewritten and the
\* declarations follow them
C31_TwoFunctionsThenOracles ==
    /\ frontend = "instrument"
    /\ inst.phase = "instrumented"
    /\ inst.state.enabled
    /\ Len(inst.module) = 2
    /\ Len(inst.items) = 2 + Len(OracleItems)
    /\ inst.state.next_var_id > 0

\* with instrumentation disabled insert_symbols returned at once
C31_DisabledLeftUnchanged ==
    /\ frontend = "instrument"
    /\ inst.phase = "disabled"
    /\ inst.items = inst.module
    /\ inst.module # <<>>

\* ---------------------------------------------------------------------------
CommandReturned == frontend = "command" /\ cli.phase = "returned"

\* the inputs were read, and what the session solved could be decoded and
\* written
CliEnvironmentWorks ==
    /\ cli.env.inputs_ok
    /\ cli.env.decode_ok
    /\ cli.env.witness_name => cli.env.save_ok

\* C32: the debug command ends with exit code 0 exactly when the session
\* ended with a solved witness stack; a session that ends with an execution
\* error, or without a witness stack, makes the command return an error.
\* (Stated of the runs whose inputs file, ABI decoding and witness file work.)
\* The code passes a session's execution error on as the inner result and
\* debug_main maps it away, so TLC finds this violated.
C32_ExitZeroExactlyWhenSolved ==
    (CommandReturned /\ CliEnvironmentWorks) =>
        (ExitCode(cli.result) = 0 <=> cli.session = OkR(SolvedStack))

\* the part that holds: a solved session succeeds and a session that ends
\* without a witness stack is an error
C32_SolvedSucceedsAndNoWitnessFails ==
    (CommandReturned /\ CliEnvironmentWorks) =>
        /\ cli.session = OkR(SolvedStack) => ExitCode(cli.result) = 0
        /\ cli.session = OkR(NoWitnessStack) => cli.result = ErrR("ExecutionHalted")

\* a session ended with an execution error and the command returned Ok
C32_ExecutionErrorExitsZero ==
    /\ CommandReturned
    /\ CliEnvironmentWorks
    /\ cli.session = ErrR("ExecutionError")
    /\ ExitCode(cli.result) = 0

\* ---------------------------------------------------------------------------
\* what each command other than stepping and restart would do in the current
\* session, for each of its arguments
OtherCommandsHere ==
    {add_breakpoint_at(Here, loc) : loc \in BpLocs}
    \cup {delete_breakpoint_at(Here, loc) : loc \in BpLocs}
    \cup {update_witness(Here, w, v) : w \in Witnesses, v \in FieldValues \cup {BadValue}}
    \cup {show_witness(Here, w) : w \in {1, 3}}
    \cup {set_brillig_register(Here, 0, v) : v \in {0, BadValue}}
    \cup {repl_write_brillig_memory(Here, 0, v) : v \in {0, BadValue}}
    \cup {show_witness_map(Here), display_opcodes(Here), show_brillig_registers(Here),
          show_brillig_memory(Here)}

OtherCmds ==
    {"break", "delete", "witness", "witness set", "witness show", "opcodes",
     "registers", "regset", "memory", "memset"}

\* C33: the commands other than stepping and restart are served in every
\* session state, halted ones included - none is refused - and none changes
\* last_result: the one served last left it as it was, and so would every one
\* of them served next.
C33_OtherCommandsServedAndKeepLastResult ==
    frontend = "repl" =>
        /\ \A r \in OtherCommandsHere :
               /\ r.out.msg # "refused"
               /\ r.sess.last_result = last_result
        /\ last.cmd \in OtherCmds =>
               /\ last.out.msg # "refused"
               /\ last_result = last.pre.last_result

\* a witness was overwritten in a session halted on an error, which stays
\* halted
C33_WitnessUpdatedWhileHalted ==
    /\ frontend = "repl"
    /\ last.cmd = "witness set"
    /\ last.out.msg = "set"
    /\ last.pre.last_result.tag = "Error"
    /\ last_result.tag = "Error"
    /\ context # last.pre.context

\* ---------------------------------------------------------------------------
\* The member assignments of the instrumented tree, and what the variable
\* store does with the calls they make.
MemberAssigns ==
    {i \in 1..Len(Emitted) : Emitted[i].kind = "Assign" /\ Emitted[i].lvalue.kind # "Ident"}

\* the placeholder call of an instrumented member assignment
PlaceholderOf(stmt) == stmt.expression.statements[2].expr

\* the access steps a placeholder call lists, in list order: an index
\* expression, or the bytes of the field name paired with the position
ListedSteps(call) ==
    LET indexes == call.arguments[2].arguments[1].exprs
        fields == call.arguments[3].arguments[1].exprs
        named(i) == {k \in 1..Len(fields) : fields[k].exprs[1].value = i - 1}
    IN [i \in 1..Len(indexes) |->
           IF named(i) # {}
           THEN [kind |-> "field",
                 bytes |-> fields[CHOOSE k \in named(i) : TRUE].exprs[2].arguments[1].exprs]
           ELSE [kind |-> "index", index |-> indexes[i]]]

\* the access steps of an lvalue from the root identifier to the place written
RootToLeaf(lvalue) ==
    LET path == AccessPath(lvalue) IN
    [i \in 1..Len(path) |->
        IF path[i].kind = "field"
        THEN [kind |-> "field",
              bytes |-> [k \in 1..Len(as_bytes(path[i].name)) |->
                            int_expr(as_bytes(path[i].name)[k])]]
        ELSE path[i]]

Reversed(seq) == [i \in 1..Len(seq) |-> seq[Len(seq) + 1 - i]]

\* the var_id of the binding of the root identifier that is in force at
\* statement i: the one the last var_assign of that name before i reports
BindingInForce(i) ==
    LET binds == {k \in 1..(i - 1) :
                     /\ IsVarAssign(Emitted[k])
                     /\ Emitted[k].expr.arguments[2] = Variable(Root(Emitted[i].lvalue))}
    IN IF binds = {} THEN NoVarId
       ELSE VarIdOf(Emitted[CHOOSE k \in binds : \A other \in binds : other <= k])

\* the declaration order of the fields of the structs of the modules
FieldOrder == <<"a", "b">>

FieldPosition(name) == (CHOOSE i \in 1..Len(FieldOrder) : FieldOrder[i] = name) - 1

RECURSIVE TypeOfValue(_)
\* the printable type of a value of the modules
TypeOfValue(value) ==
    CASE value.kind = "Vec" ->
           ArrayT(Len(value.items),
                  IF value.items = <<>> THEN FieldT ELSE TypeOfValue(value.items[1]))
      [] value.kind = "Struct" ->
           LET names == SelectSeq(FieldOrder, LAMBDA name : name \in DOMAIN value.map)
           IN StructT([i \in 1..Len(names) |->
                          [name |-> names[i], typ |-> TypeOfValue(value.map[names[i]])]])
      [] OTHER -> FieldT

RECURSIVE FieldsOf(_)
\* the field elements a value is passed to an oracle as
FieldsOf(value) ==
    CASE value.kind = "Field" -> <<value.f>>
      [] value.kind = "Vec" ->
           Flatten([i \in 1..Len(value.items) |-> FieldsOf(value.items[i])])
      [] value.kind = "Struct" ->
           LET names == SelectSeq(FieldOrder, LAMBDA name : name \in DOMAIN value.map)
           IN Flatten([i \in 1..Len(names) |-> FieldsOf(value.map[names[i]])])
      [] OTHER -> <<>>

\* the indexes of a member_assign call as the store receives them: the index
\* of a field access is the position of the named field in its struct
IndexesOf(call) ==
    LET named(i) == {k \in 1..Len(call.fields) : call.fields[k].items[1].f = i - 1}
        NameOf(bytes) ==
            CHOOSE name \in {FieldOrder[k] : k \in 1..Len(FieldOrder)} :
                as_bytes(name) = [k \in 1..Len(bytes.items) |-> bytes.items[k].f]
    IN [i \in 1..Len(call.indexes) |->
           IF named(i) # {}
           THEN FieldPosition(NameOf(call.fields[CHOOSE k \in named(i) : TRUE].items[2]))
           ELSE call.indexes[i].f]

RECURSIVE Tracked(_)
\* [ok, vars]: the values the variable store holds after the oracle calls of a
\* run, drops left aside; ok is FALSE once an assign_field has panicked
Tracked(trace) ==
    IF trace = <<>> THEN [ok |-> TRUE, vars |-> <<>>]
    ELSE LET call == trace[Len(trace)]
             Then(before) ==
                 LET After(written) ==
                         IF written.ok
                         THEN [ok |-> before.ok,
                               vars |-> (call.var_id :> written.value) @@ before.vars]
                         ELSE [ok |-> FALSE, vars |-> before.vars]
                 IN CASE call.op = "assign" ->
                           [ok |-> before.ok,
                            vars |-> (call.var_id :> call.value) @@ before.vars]
                      [] call.op = "member_assign" ->
                           IF call.var_id \notin DOMAIN before.vars
                           THEN [ok |-> FALSE, vars |-> before.vars]
                           ELSE After(assign_at(before.vars[call.var_id],
                                                TypeOfValue(before.vars[call.var_id]),
                                                IndexesOf(call), FieldsOf(call.value)))
                      [] OTHER -> before
         IN Then(Tracked(SubSeq(trace, 1, Len(trace) - 1)))

MemberCalls(trace) == {k \in 1..Len(trace) : trace[k].op = "member_assign"}

\* the run is one the type checker accepts: the parameter x is a Field
OnFields == \A i \in 1..Len(inst.args) : inst.args[i].kind = "Field"

\* ---------------------------------------------------------------------------
\* C34: for an assignment whose lvalue is a chain of field and index accesses
\* on a variable, the placeholder call names the var_id of the innermost
\* binding of the root identifier and lists one index per access step in
\* root-to-leaf order, so that assign_field, applying the indexes in list
\* order from the variable's whole value, writes the sub-value the source
\* assignment writes: after the run the store holds for the variable the
\* value the program holds.
C34_MemberAssignListsRootToLeaf ==
    /\ Instrumented =>
           \A i \in MemberAssigns :
               /\ PlaceholderOf(Emitted[i]).arguments[1] = int_expr(BindingInForce(i))
               /\ ListedSteps(PlaceholderOf(Emitted[i])) = RootToLeaf(Emitted[i].lvalue)
    /\ Ran /\ OnFields =>
           \A k \in MemberCalls(inst.instrumented.trace) :
               LET call == inst.instrumented.trace[k]
                   held == Tracked(inst.instrumented.trace)
               IN /\ held.ok
                  /\ held.vars[call.var_id] = inst.original.value

\* what the code does: the var_id is the innermost binding's, one index per
\* access step, listed from the place written back to the root; a chain of
\* one step reaches the value written
C34_StepsListedLeafToRoot ==
    /\ Instrumented =>
           \A i \in MemberAssigns :
               /\ PlaceholderOf(Emitted[i]).arguments[1] = int_expr(BindingInForce(i))
               /\ ListedSteps(PlaceholderOf(Emitted[i]))
                      = Reversed(RootToLeaf(Emitted[i].lvalue))
    /\ Ran /\ OnFields /\ inst.module \in {<<FnField>>, <<FnIndex>>} =>
           \A k \in MemberCalls(inst.instrumented.trace) :
               LET call == inst.instrumented.trace[k]
                   held == Tracked(inst.instrumented.trace)
               IN /\ held.ok
                  /\ held.vars[call.var_id] = inst.original.value

\* v.a[1] = 7 has run: the call lists the index 1 before the field a, and the
\* store, taking index 1 of the struct, finds the field b and panics
C34_TwoStepChainMisses ==
    /\ Ran
    /\ inst.module = <<FnMember>>
    /\ OnFields
    /\ MemberCalls(inst.instrumented.trace) # {}
    /\ inst.original.value = StructV(("a" :> VecV(<<inst.args[1], FieldV(7)>>))
                                     @@ ("b" :> FieldV(3)))
    /\ ~Tracked(inst.instrumented.trace).ok

\* t[1] = x has run and the store holds the array written
C34_OneStepChainReaches ==
    /\ Ran
    /\ inst.module = <<FnIndex>>
    /\ MemberCalls(inst.instrumented.trace) # {}
    /\ Tracked(inst.instrumented.trace).ok
    /\ inst.original.value = VecV(<<FieldV(3), inst.args[1]>>)

\* ---------------------------------------------------------------------------
\* The requests and the responses of the uninitialized DAP loop.
Serving == frontend = "dap"

\* a Launch the loop refuses
RefusedLaunch(req) ==
    /\ req.command = "Launch"
    /\ \/ req.arguments.additional_data # "Object"
       \/ req.arguments.project_folder # "String"
       \/ ~req.arguments.compiles

AcceptedLaunch(req) == req.command = "Launch" /\ ~RefusedLaunch(req)

\* the positions in the log of the responses to request seq
ResponsesTo(seq) ==
    {i \in 1..Len(dap.log) : dap.log[i].kind = "response" /\ dap.log[i].seq = seq}

LastRequest == dap.requests[Len(dap.requests)]

\* ---------------------------------------------------------------------------
\* C35: in the uninitialized DAP loop a Launch without additionalData or a
\* string projectFolder, or whose load-and-compile fails, is answered with an
\* error response and the loop keeps serving; a successful Launch is
\* acknowledged before the debug session starts and the loop ends when the
\* session returns; a Disconnect is acknowledged and ends the loop; and no
\* request is answered twice.  (After a refused Launch the loop serves until
\* the client closes the input.)
C35_UninitializedLoopAnswersOnce ==
    Serving =>
        /\ \A seq \in 1..Len(dap.requests) :
               LET req == dap.requests[seq] IN
               /\ Cardinality(ResponsesTo(seq)) <= 1
               /\ RefusedLaunch(req) =>
                      /\ \E i \in ResponsesTo(seq) : ~dap.log[i].success
                      /\ seq = Len(dap.requests) /\ ~dap.eof => dap.phase = "serving"
               /\ AcceptedLaunch(req) =>
                      /\ seq = Len(dap.requests)
                      /\ \E i \in ResponsesTo(seq) :
                             /\ dap.log[i].success
                             /\ i < Len(dap.log)
                             /\ dap.log[i + 1] = SessionEvent(seq, "session started")
                      /\ dap.phase \in {"session", "ended"}
                      /\ dap.phase = "ended" <=>
                             dap.log[Len(dap.log)] = SessionEvent(seq, "session returned")
               /\ req.command = "Disconnect" =>
                      /\ seq = Len(dap.requests)
                      /\ \E i \in ResponsesTo(seq) : dap.log[i].success
                      /\ dap.phase = "ended"
        /\ \A i \in 1..Len(dap.log) :
               dap.log[i].kind = "session started" =>
                   /\ i > 1
                   /\ dap.log[i - 1] = Response(dap.log[i].seq, TRUE, "ack")
        /\ dap.phase = "session" => AcceptedLaunch(LastRequest)

\* a Launch without a project folder was refused, a second one that failed to
\* compile was refused too, the third was acknowledged and its session has
\* returned
C35_TwoRefusedLaunchesThenSession ==
    /\ Serving
    /\ dap.phase = "ended"
    /\ Len(dap.requests) = 3
    /\ dap.requests[1].arguments.project_folder = "None"
    /\ dap.requests[1].arguments.additional_data = "Object"
    /\ RefusedLaunch(dap.requests[2])
    /\ dap.requests[2].arguments.project_folder = "String"
    /\ AcceptedLaunch(dap.requests[3])
    /\ dap.log[1] = Response(1, FALSE, "Missing project folder argument")
    /\ dap.log[2] = Response(2, FALSE, "Failed to compile project")
    /\ dap.log[Len(dap.log)].kind = "session returned"

\* ---------------------------------------------------------------------------
\* run of the REPL front-end: Finalize and the shutdown of the two tasks.
Finalized == frontend = "repl" /\ last.cmd = "finalize"

Joining == frontend = "handshake"

\* the debugger task has taken the Finalize of the REPL task out of its inbox
FinalizeTaken ==
    /\ hs.finalizes > 0
    /\ \A i \in 1..Len(hs.inbox) : hs.inbox[i] # "Finalize"

\* ---------------------------------------------------------------------------
\* C36: on Finalize the debugger task of the REPL replies exactly once, with
\* Some(the current witness map) if and only if the solver is solved at that
\* moment and with None otherwise - in progress, failed, or stopped at a
\* breakpoint - and run returns that value.
C36_FinalizeRepliesOnceSolvedOrNone ==
    /\ Finalized =>
           /\ last.out.reply.some <=> context.status = "Solved"
           /\ last.out.reply.some => last.out.reply.map = context.wit
           /\ ~last.out.reply.some => last.out.reply = NoMap
    /\ Joining =>
           /\ Len(hs.replies) = IF FinalizeTaken THEN 1 ELSE 0
           /\ \A i \in 1..Len(hs.replies) :
                  /\ hs.replies[i].reply.some <=> hs.sess.context.status = "Solved"
                  /\ hs.replies[i].reply.some =>
                         hs.replies[i].reply.map = <<hs.served>>
                  /\ ~hs.replies[i].reply.some => hs.replies[i].reply = NoMap
           /\ hs.returned /\ hs.repl = "done" =>
                  /\ Len(hs.replies) = 1
                  /\ hs.result = hs.replies[1].reply

\* the session was finalized while stopped at a breakpoint, in progress: the
\* reply is None
C36_FinalizedAtBreakpoint ==
    /\ Finalized
    /\ last_result.tag = "BreakpointReached"
    /\ context.status = "InProgress"
    /\ last.out.reply = NoMap

\* the session was finalized when solved: the reply is the witness map
C36_FinalizedWhenSolved ==
    /\ Finalized
    /\ context.status = "Solved"
    /\ last.out.reply = SomeMap(context.wit)

\* run has returned the witness map the debugger task answered with after
\* two commands
C36_RunReturnedTheReply ==
    /\ Joining
    /\ hs.returned
    /\ hs.served = 2
    /\ hs.result = SomeMap(<<2>>)
    /\ hs.replies = <<[reply |-> SomeMap(<<2>>), served |-> 2]>>

\* ---------------------------------------------------------------------------
\* C37: the shutdown of the REPL terminates without deadlock: once the REPL
\* loop has stopped the REPL task sends Finalize exactly once over the
\* capacity-1 channel, the debugger task serves every earlier message first
\* and answers Finalize, the REPL task receives the answer and ends, the
\* senders to the debugger are dropped with it so that the debugger task
\* ends, and run returns; with the two tasks scheduled fairly this always
\* happens.
HandshakeSafe ==
    Joining =>
        /\ hs.finalizes = IF hs.repl \in {"await", "done"} THEN 1 ELSE 0
        /\ \A i \in 1..Len(hs.replies) : hs.replies[i].served = hs.sent
        /\ hs.served <= hs.sent
        /\ hs.repl = "done" =>
               /\ Len(hs.replies) = 1
               /\ hs.repl_result = hs.replies[1].reply
               /\ hs.outbox = <<>>
        /\ hs.debugger = "done" => hs.repl \in {"done", "panicked"} /\ hs.inbox = <<>>
        /\ hs.returned => hs.debugger = "done" /\ hs.served = hs.sent
        /\ ~hs.returned => ENABLED HandshakeNext

C37_ShutdownHandshakeTerminates ==
    /\ []HandshakeSafe
    /\ (Joining /\ hs.repl = "finalize") ~> hs.returned

\* three commands were sent and served, Finalize was answered and run has
\* returned
C37_ReturnedAfterThreeCommands ==
    /\ Joining
    /\ hs.returned
    /\ hs.repl = "done"
    /\ hs.sent = 3
    /\ hs.served = 3
    /\ hs.finalizes = 1

\* ---------------------------------------------------------------------------
\* C38: the frame lifecycle of the variable store.  The store starts with no
\* frame; a push_fn adds one frame and an effective pop_fn removes one, every
\* other call leaving the number as it is, so that the number of frames is
\* the pushes minus the effective pops and never negative; pop_fn on no
\* frame returns without a change; a pop_fn right after a push_fn gives the
\* frames there were before the push; and assign, assign_field, get and drop
\* called on no frame panic and create none.
FramesCounted ==
    /\ frontend = "store" /\ dops = 0 => debug_vars.frames = <<>>
    /\ Called("push_fn") =>
           /\ ~dlast.panicked
           /\ Len(debug_vars.frames) = Len(dlast.pre.frames) + 1
           /\ OlderFrames(debug_vars) = dlast.pre.frames
    /\ Called("pop_fn") =>
           /\ ~dlast.panicked
           /\ dlast.pre.frames = <<>> => debug_vars = dlast.pre
           /\ dlast.pre.frames # <<>> => debug_vars.frames = OlderFrames(dlast.pre)
    /\ frontend = "store" /\ dlast.call.op \notin {"none", "push_fn", "pop_fn"} =>
           Len(debug_vars.frames) = Len(dlast.pre.frames)
    /\ frontend = "store" /\ dlast.call.op \in {"assign", "assign_field", "get", "drop"}
       /\ dlast.pre.frames = <<>> =>
           /\ dlast.panicked
           /\ debug_vars = dlast.pre

\* a pop_fn that follows a push_fn restores the frames
PopAfterPush ==
    Did("push_fn") /\ dlast'.call.op = "pop_fn" =>
        /\ ~dlast'.panicked
        /\ debug_vars'.frames = dlast.pre.frames

C38_FrameLifecycle == []FramesCounted /\ [][PopAfterPush]_vars

\* a frame that binds a variable was pushed over and popped again, and the
\* frame below is as it was
C38_PushedAndPoppedOverBoundFrame ==
    /\ Did("pop_fn")
    /\ Len(dlast.pre.frames) = 2
    /\ Len(debug_vars.frames) = 1
    /\ DOMAIN TopFrame(debug_vars).vars # {}

\* pop_fn was called on a store of no frame and returned
C38_PoppedOnNoFrame ==
    /\ Did("pop_fn")
    /\ dlast.pre.frames = <<>>
    /\ debug_vars.frames = <<>>

\* get was called on a store of no frame and panicked
C38_GetOnNoFramePanicked ==
    /\ Called("get")
    /\ dlast.pre.frames = <<>>
    /\ dlast.panicked

\* ---------------------------------------------------------------------------
\* the states a function can be walked from: no scope, one scope and two
\* scopes open, the innermost holding a variable
WalkStarts ==
    {[DebugStateDefault(descending) EXCEPT !.scope = scope] :
        descending \in BOOLEAN,
        scope \in {<<>>, <<NoScope>>, <<NoScope, "x" :> 0>>}}

\* the walk left the scope stack as it found it and insert_var always found a
\* scope
Balanced(start, walked) ==
    /\ walked.state.scope = start.scope
    /\ ~walked.state.no_scope

\* C39: the scope stack of the instrumenter is balanced: walking any function
\* of the module, whatever blocks, ifs, lambdas and for-loops it nests, from
\* any depth of the stack leaves the stack as it was; the stack is empty
\* after insert_symbols; and insert_var never meets an empty stack.
C39_ScopeStackBalanced ==
    frontend = "instrument" =>
        /\ \A k \in 1..Len(inst.module), start \in WalkStarts :
               Balanced(start, walk_fn(start, inst.module[k]))
        /\ inst.phase # "parsed" =>
               /\ inst.state.scope = <<>>
               /\ ~inst.state.no_scope
               /\ ~inst.state.panicked

\* the function nesting a for-loop, an if with both branches, blocks and a
\* lambda has been instrumented, six variables registered, and run
C39_NestedFunctionWalked ==
    /\ Ran
    /\ inst.module = <<FnDeep>>
    /\ inst.state.next_var_id = 6
    /\ inst.state.scope = <<>>
    /\ inst.instrumented.ok

\* ---------------------------------------------------------------------------
Typed == frontend = "types" /\ ~dtypes.panicked

TypeIds == 0..(dtypes.next_type_id - 1)

\* types and id_to_type are inverse bijections over the ids handed out
InverseBijections ==
    /\ DOMAIN dtypes.id_to_type = TypeIds
    /\ {dtypes.types[ptype] : ptype \in DOMAIN dtypes.types} = TypeIds
    /\ \A ptype \in DOMAIN dtypes.types : dtypes.id_to_type[dtypes.types[ptype]] = ptype
    /\ \A type_id \in TypeIds :
           /\ dtypes.id_to_type[type_id] \in DOMAIN dtypes.types
           /\ dtypes.types[dtypes.id_to_type[type_id]] = type_id

SameIdIffSameType ==
    \A v1 \in DOMAIN dtypes.variables, v2 \in DOMAIN dtypes.variables :
        dtypes.variables[v1].type_id = dtypes.variables[v2].type_id
            <=> dtypes.resolved[v1] = dtypes.resolved[v2]

EveryVariableTyped ==
    \A var_id \in DOMAIN dtypes.variables :
        /\ dtypes.variables[var_id].type_id \in DOMAIN dtypes.id_to_type
        /\ get_type(dtypes, var_id) =
               [tag |-> "Some", text |-> dtypes.resolved[var_id]]

\* C40: DebugTypes interns the printable types: after any insert_var calls
\* types and id_to_type are inverse bijections over 0..next_type_id-1, two
\* variables have the same type_id exactly when their resolved printable
\* types are equal, and every variable's type_id is a key of id_to_type (so
\* get_type answers the type the variable was inserted with).
C40_TypesInterned ==
    frontend = "types" =>
        /\ InverseBijections
        /\ SameIdIffSameType
        /\ EveryVariableTyped

\* three inserts: two variables of one printable type reached through a bound
\* type variable and directly, and one of another type
C40_TwoVariablesShareOneTypeId ==
    /\ Typed
    /\ dtypes.inserts = 3
    /\ DOMAIN dtypes.variables = {0, 1, 2}
    /\ dtypes.variables[0].type_id = dtypes.variables[1].type_id
    /\ dtypes.variables[2].type_id # dtypes.variables[0].type_id
    /\ dtypes.next_type_id = 2
    /\ dtypes.got = None

====
